---- MODULE Spec2Model ----
(***************************************************************************)
(* A model of the BMW CarData integration: the rate limited REST client    *)
(* (api.py), the token lifecycle (auth.py), the coordinator's poll cycle   *)
(* (coordinator.py) and vehicle discovery in the config flow               *)
(* (config_flow.py).                                                       *)
(*                                                                         *)
(* Time.  time.time() is a float; the model's clock `now` counts ticks of  *)
(* 1/TicksPerSecond second, so that sub-second readings exist and int()    *)
(* truncates.  Every timestamp of the model is in ticks; durations the     *)
(* code gives in seconds go through Seconds().                             *)
(***************************************************************************)
EXTENDS Integers, Sequences, FiniteSets, TLC

\* ------------------------------------------------------------------ bounds
TicksPerSecond == 2
\* Clock advances in one behaviour.
MaxClockSteps == 2
\* Requests started by the callers of the REST client in one behaviour.
MaxRequests == 3
\* Coroutines using one REST client at the same time.
NumCallers == 2
\* Calls of a pre-loaded ledger that are one tick older than the rest.
MaxOld == 2
\* Poll cycles started in one behaviour, and cycles that may run at once.
MaxPolls == 2
NumCycles == 2
\* Connection failures of the stream in one behaviour: of the reconnect loop
\* followed alone, and of the stream with its messages and its callers.
MaxFails == 8
MaxStreamFails == 2
MaxOrphans == 2

\* --------------------------------------------------------------- const.py
MQTT_RECONNECT_MIN == 5
MQTT_RECONNECT_MAX == 300
RATE_LIMIT_MAX_CALLS == 50
RATE_LIMIT_WINDOW == 86400
TOKEN_REFRESH_MARGIN == 300

Seconds(s) == s * TicksPerSecond

Max(a, b) == IF a >= b THEN a ELSE b

\* int(x) of a float x given in ticks: truncation toward zero, in seconds.
IntTrunc(x) == IF x >= 0 THEN x \div TicksPerSecond
                         ELSE -((-x) \div TicksPerSecond)

VARIABLES
    now,          \* time.time(), in ticks
    clock_steps,  \* clock advances so far
    call_log,     \* BMWCarDataAPI._call_log of each client instance
    access_token, \* BMWCarDataAPI._access_token of each client instance
    http_log,     \* issue time of every HTTP call sent to the REST API
    caller,       \* the coroutines inside BMWCarDataAPI._request / create_container
    nreq,         \* requests started so far
    last,         \* what the step just taken returned or raised (none: a clock step)
    sys,          \* none | flow | aborted | created | first_refresh | running | failed
    flow,         \* BMWCarDataConfigFlow: _tokens, _vehicles and async_step_discover
    entry,        \* the config entry's data: tokens and vehicles
    tokens,       \* BMWCarDataCoordinator._tokens
    mqtt,         \* BMWCarDataCoordinator._mqtt and the stream's _id_token
    container_id, \* BMWCarDataCoordinator._container_id
    vehicles,     \* BMWCarDataCoordinator._vehicles, in order
    data,         \* BMWCarDataCoordinator.data
    cycle,        \* the runs of _async_update_data
    polls,        \* poll cycles started so far
    issued        \* token strings issued by the server so far

clockVars == <<now, clock_steps>>
callerVars == <<caller, nreq, last>>
sysVars == <<sys, flow, entry, tokens, mqtt, container_id, vehicles, data,
             cycle, polls, issued>>
vars == <<now, clock_steps, call_log, access_token, http_log, caller, nreq,
          last, sys, flow, entry, tokens, mqtt, container_id, vehicles, data,
          cycle, polls, issued>>

\* The two BMWCarDataAPI instances of the program: the config flow's
\* (config_flow.py:188) and the coordinator's (coordinator.py:70).
Clients == {"flow", "coord"}
Callers == 1..NumCallers

\* ----------------------------------------------------------------- api.py

\* BMWCarDataAPI._prune_call_log: pop from the left while the head is older
\* than the window.
\* A prune that also drops the entry exactly one window old.
RECURSIVE prune_call_log_inclusive(_, _)
prune_call_log_inclusive(log, t) ==
    IF log # <<>> /\ Head(log) <= t - Seconds(RATE_LIMIT_WINDOW)
    THEN prune_call_log_inclusive(Tail(log), t)
    ELSE log

\* A prune that drops at most the oldest entry.
prune_call_log_once(log, t) ==
    IF log # <<>> /\ Head(log) < t - Seconds(RATE_LIMIT_WINDOW)
    THEN Tail(log)
    ELSE log

RECURSIVE prune_call_log(_, _)
prune_call_log(log, t) ==
    IF log # <<>> /\ Head(log) < t - Seconds(RATE_LIMIT_WINDOW)
    THEN prune_call_log(Tail(log), t)
    ELSE log

\* BMWCarDataAPI.remaining_calls, the value returned (the ledger is pruned too).
remaining_calls(log, t) ==
    Max(0, RATE_LIMIT_MAX_CALLS - Len(prune_call_log(log, t)))

\* A check that lets a request pass with 50 calls recorded.
check_rate_limit_over(log, t) ==
    LET pruned == prune_call_log(log, t)
        full == Len(pruned) > RATE_LIMIT_MAX_CALLS
    IN [log |-> pruned,
        ok |-> ~full,
        reset_in |-> IF full
                     THEN IntTrunc(Head(pruned) + Seconds(RATE_LIMIT_WINDOW) - t)
                     ELSE 0]

\* BMWCarDataAPI._check_rate_limit: the pruned ledger, whether the request may
\* go on, and the reset_in of the RateLimitExceeded it raises otherwise.
check_rate_limit(log, t) ==
    LET pruned == prune_call_log(log, t)
        full == Len(pruned) >= RATE_LIMIT_MAX_CALLS
    IN [log |-> pruned,
        ok |-> ~full,
        reset_in |-> IF full
                     THEN IntTrunc(Head(pruned) + Seconds(RATE_LIMIT_WINDOW) - t)
                     ELSE 0]

\* BMWCarDataAPI._record_call
record_call(log, t) == Append(log, t)

\* What the server may answer: a status and, for a 2xx, whether the body is
\* empty (content_length == 0).
Responses ==
    { [status |-> 200, empty |-> FALSE], [status |-> 200, empty |-> TRUE],
      [status |-> 401, empty |-> FALSE], [status |-> 429, empty |-> FALSE],
      [status |-> 500, empty |-> FALSE] }

Is2xx(status) == 200 <= status /\ status < 300

\* A client that raises only for 401 and hands every other body on.
classify_request_lenient(resp) ==
    IF resp.status = 401 THEN [exc |-> "APIError", status |-> 401]
    ELSE IF resp.empty THEN [exc |-> "None", status |-> resp.status]
    ELSE [exc |-> "ok", status |-> resp.status]

\* BMWCarDataAPI._request, lines 142-152: the outcome for a response.
classify_request(resp) ==
    IF resp.status = 401 THEN [exc |-> "APIError", status |-> 401]
    ELSE IF resp.status = 429 THEN [exc |-> "APIError", status |-> 429]
    ELSE IF ~Is2xx(resp.status) THEN [exc |-> "APIError", status |-> resp.status]
    ELSE IF resp.empty THEN [exc |-> "None", status |-> resp.status]
    ELSE [exc |-> "ok", status |-> resp.status]

\* BMWCarDataAPI.create_container, lines 259-262.
classify_create(resp) ==
    IF ~Is2xx(resp.status) THEN [exc |-> "APIError", status |-> resp.status]
    ELSE [exc |-> "ok", status |-> resp.status]

\* The ledger after the response of a call made through _request: the call is
\* recorded, and the debug line's self.remaining_calls prunes.
request_recorded(log, t) == prune_call_log(record_call(log, t), t)

\* The ledger after the response of create_container's POST: recorded only.
create_recorded(log, t) == record_call(log, t)

Ops == {"request", "create_container"}

Idle == [pc |-> "idle", op |-> "none", sent_at |-> 0]

\* seq without its last element equal to x (a call that never left the host).
RECURSIVE Withdraw(_, _)
Withdraw(seq, x) ==
    IF seq = <<>> THEN <<>>
    ELSE IF seq[Len(seq)] = x THEN SubSeq(seq, 1, Len(seq) - 1)
    ELSE Append(Withdraw(SubSeq(seq, 1, Len(seq) - 1), x), seq[Len(seq)])

\* No stream message.
NoMsg ==
    [topic_vin |-> "", parts |-> 0, shape |-> "object", has_vin |-> FALSE, vin |-> "",
     data |-> [kind |-> "none", items |-> [d \in {} |-> 0]]]

\* The outcome of the step just taken; msg is the stream message it handled.
Last(op, who, exc, status, ret) ==
    [op |-> op, who |-> who, exc |-> exc, status |-> status, ret |-> ret,
     msg |-> NoMsg]

NoLast == Last("none", 0, "none", 0, 0)

\* --------------------------------------------------- the client's callers

\* A coroutine enters _request or create_container on the coordinator's client:
\* _check_rate_limit, then either RateLimitExceeded or the HTTP call is sent and
\* the coroutine is suspended until the response.
ApiStart(c, op) ==
    /\ caller[c].pc = "idle"
    /\ nreq < MaxRequests
    /\ nreq' = nreq + 1
    /\ LET chk == check_rate_limit(call_log["coord"], now)
       IN /\ call_log' = [call_log EXCEPT !["coord"] = chk.log]
          /\ IF chk.ok
             THEN /\ http_log' = Append(http_log, now)
                  /\ caller' = [caller EXCEPT
                                 ![c] = [pc |-> "await", op |-> op, sent_at |-> now]]
                  /\ last' = Last(op, c, "sent", 0, 0)
             ELSE /\ UNCHANGED <<http_log, caller>>
                  /\ last' = Last(op, c, "RateLimitExceeded", 0, chk.reset_in)
    /\ UNCHANGED <<now, clock_steps, access_token>>
    /\ UNCHANGED sysVars

\* The response of a suspended call arrives: _record_call, then the outcome.
ApiResponse(c, resp) ==
    /\ caller[c].pc = "await"
    /\ caller' = [caller EXCEPT ![c] = Idle]
    /\ IF caller[c].op = "request"
       THEN /\ call_log' = [call_log EXCEPT
                              !["coord"] = request_recorded(call_log["coord"], now)]
            /\ last' = Last("request", c, classify_request(resp).exc,
                            classify_request(resp).status, 0)
       ELSE /\ call_log' = [call_log EXCEPT
                              !["coord"] = create_recorded(call_log["coord"], now)]
            /\ last' = Last("create_container", c, classify_create(resp).exc,
                            classify_create(resp).status, 0)
    /\ UNCHANGED <<now, clock_steps, access_token, http_log, nreq>>
    /\ UNCHANGED sysVars

\* The connection cannot be established: aiohttp raises out of the
\* `async with`, nothing was sent and nothing is recorded.
ApiConnError(c) ==
    /\ caller[c].pc = "await"
    /\ caller' = [caller EXCEPT ![c] = Idle]
    /\ http_log' = Withdraw(http_log, caller[c].sent_at)
    /\ last' = Last(caller[c].op, c, "ClientError", 0, 0)
    /\ UNCHANGED <<now, clock_steps, access_token, call_log, nreq>>
    /\ UNCHANGED sysVars

\* Somebody reads the remaining_calls property.
ApiRemainingCalls ==
    /\ call_log' = [call_log EXCEPT !["coord"] = prune_call_log(call_log["coord"], now)]
    /\ last' = Last("remaining_calls", 0, "ok", 0, remaining_calls(call_log["coord"], now))
    /\ UNCHANGED <<now, clock_steps, access_token, http_log, caller, nreq>>
    /\ UNCHANGED sysVars

\* ------------------------------------------------------------- the clock

ApiDeltas == {1, Seconds(RATE_LIMIT_WINDOW)}

Tick(d) ==
    /\ clock_steps < MaxClockSteps
    /\ clock_steps' = clock_steps + 1
    /\ now' = now + d

ApiTick ==
    /\ \E d \in ApiDeltas : Tick(d)
    /\ last' = NoLast
    /\ UNCHANGED <<call_log, access_token, http_log, caller, nreq>>
    /\ UNCHANGED sysVars

\* --------------------------------------------------- the client, alone

\* A ledger the client holds after n calls, the first `old` of them recorded
\* at tick 0 and the others at tick 1.
Loaded(n, old) == [i \in 1..n |-> IF i <= old THEN 0 ELSE 1]

PreCalls == RATE_LIMIT_MAX_CALLS - 2

\* The client as constructed (empty ledger), or after PreCalls calls.
ApiLedgers == {<<>>} \cup { Loaded(PreCalls, old) : old \in 0..MaxOld }

\* ============================================================ the system

\* ---------------------------------------------------------------- auth.py

\* Token strings are numbered as the server issues them; 0 is "".
\* TokenResponse.expiry_timestamp, in ticks.
expiry_timestamp(tok) == tok.token_time + Seconds(tok.expires_in)

\* TokenResponse.as_dict
as_dict(tok) ==
    [access_token |-> tok.access_token, refresh_token |-> tok.refresh_token,
     id_token |-> tok.id_token, expires_in |-> tok.expires_in,
     gcid |-> tok.gcid, token_time |-> tok.token_time]

\* TokenResponse.from_dict
from_dict(d) ==
    [access_token |-> d.access_token, refresh_token |-> d.refresh_token,
     id_token |-> d.id_token, expires_in |-> d.expires_in,
     gcid |-> d.gcid, token_time |-> d.token_time]

\* BMWAuth.refresh_tokens, the TokenResponse built from a 200 body: n is the
\* number of the strings the server issued; a body may leave out refresh_token,
\* id_token, expires_in and gcid.
DEFAULT_EXPIRES_IN == 3599

refresh_token_response(n, body, refresh_token, t) ==
    [access_token |-> n,
     refresh_token |-> IF body.has_refresh THEN n ELSE refresh_token,
     id_token |-> IF body.has_id THEN n ELSE 0,
     expires_in |-> IF body.has_expires THEN body.expires_in ELSE DEFAULT_EXPIRES_IN,
     gcid |-> IF body.has_gcid THEN 1 ELSE 0,
     token_time |-> t]

\* BMWAuth.refresh_tokens, what a non-200 answer raises.
refresh_error == "TokenRefreshFailed"

\* A cycle that reports every failure of the refresh as a failed poll.
cycle_error_update_failed(exc) == "UpdateFailed"

\* BMWCarDataCoordinator._ensure_valid_token with _async_update_data's handlers:
\* what the poll cycle raises for an exception of the refresh.
cycle_error(exc) ==
    IF exc = "TokenRefreshFailed" THEN "ConfigEntryAuthFailed" ELSE "UpdateFailed"

\* A coordinator that never finds a refresh due.
refresh_due_never(tok, t) == FALSE

\* A refresh that is due only after the margin has begun.
refresh_due_after(tok, t) ==
    t > expiry_timestamp(tok) - Seconds(TOKEN_REFRESH_MARGIN)

\* BMWCarDataCoordinator._ensure_valid_token, line 99 negated: a refresh is due.
refresh_due(tok, t) ==
    ~(t < expiry_timestamp(tok) - Seconds(TOKEN_REFRESH_MARGIN))

\* A client that keeps the token it has.
set_token_kept(old, access) == old

\* BMWCarDataAPI.set_token
set_token(old, access) == access

\* The coordinator holds no stream.
NoStream ==
    [exists |-> FALSE, id_token |-> 0, task |-> "none", pc |-> "none",
     cancelled |-> FALSE, stop_event |-> FALSE, stopping |-> "no",
     backoff |-> 0, cred |-> 0, wake |-> 0, fails |-> 0, nfail |-> 0,
     awaited_done |-> FALSE, orphans |-> 0]

\* An update that also makes the task connect anew with the credential.
update_token_reconnecting(stream, id_token) ==
    IF stream.exists
    THEN [stream EXCEPT !.id_token = id_token,
                        !.pc = IF stream.task = "running" THEN "loop" ELSE @]
    ELSE stream

\* BMWMQTTStream.update_token, applied when the coordinator holds a stream.
update_token(stream, id_token) ==
    IF stream.exists THEN [stream EXCEPT !.id_token = id_token] ELSE stream

\* What _ensure_valid_token stores in the config entry.
persisted(old, tok) == as_dict(tok)

\* ---------------------------------------------------------- telemetry data

Null == -1
Descriptors == {"d1", "d2"}

\* JSON scalars of a telemetry item and str() of them.
JStr(x) == [t |-> "str", s |-> x, n |-> 0]
JNum(k) == [t |-> "num", s |-> "", n |-> k]
JNull == [t |-> "null", s |-> "", n |-> 0]
NumStr == [k \in 1..2 |-> IF k = 1 THEN "1" ELSE "2"]
str(v) == IF v.t = "str" THEN v.s ELSE NumStr[v.n]

Item(v, unit) == [value |-> v, unit |-> unit, timestamp |-> "ts"]

\* Bodies of the telemetry endpoint: telematicData as descriptor -> item.
NoData == [d \in {} |-> JNull]
FetchPayloads ==
    { NoData,
      [d \in {"d1"} |-> Item(JStr("a"), "km")],
      [d \in {"d1", "d2"} |-> IF d = "d1" THEN Item(JNum(1), "km")
                                           ELSE Item(JNull, "km")] }

\* BMWCarDataAPI.get_telematic_data, lines 198-224: the entries of a body, by
\* name; an item without value gives none.
telematic_entries(payload) ==
    [d \in {x \in DOMAIN payload : payload[x].value.t # "null"} |->
        [name |-> d, value |-> str(payload[d].value),
         unit |-> payload[d].unit, timestamp |-> payload[d].timestamp]]

\* VehicleData(basic=v)
VehicleData(v) ==
    [basic |-> v, telemetry |-> NoData, rest_updated |-> Null, mqtt_updated |-> Null]

\* A merge that stops after the first descriptor of its batch.
merge_rest_data_partial(store, vin, entries, t) ==
    IF vin \notin DOMAIN store THEN store
    ELSE LET first == IF "d1" \in DOMAIN entries THEN {"d1"} ELSE DOMAIN entries
         IN [store EXCEPT
               ![vin] = [@ EXCEPT
                   !.telemetry = [d \in DOMAIN @ \cup first |->
                                    IF d \in first THEN entries[d] ELSE @[d]],
                   !.rest_updated = t]]

\* BMWCarDataCoordinator._merge_rest_data
merge_rest_data(store, vin, entries, t) ==
    IF vin \notin DOMAIN store THEN store
    ELSE [store EXCEPT
            ![vin] = [@ EXCEPT
                !.telemetry = [d \in DOMAIN @ \cup DOMAIN entries |->
                                 IF d \in DOMAIN entries THEN entries[d] ELSE @[d]],
                !.rest_updated = t]]

\* ------------------------------------------------------- the config flow

Identity(vin, brand, model) == [vin |-> vin, brand |-> brand, model |-> model]

\* BMWCarDataAPI.discover_vehicles, lines 283-285: the placeholder identity.
placeholder(vin) == Identity(vin, "BMW", "Unknown")

\* A basicData body: whether it has the members vin, brand and model, and
\* their values.
BasicBody(has_vin, vin, named, brand, model) ==
    [has_vin |-> has_vin, vin |-> vin, named |-> named, brand |-> brand,
     model |-> model]

\* The body of a vehicle that names itself a BMW iX and gives no VIN.
StdBody == BasicBody(FALSE, "", TRUE, "BMW", "iX")

\* Bodies of the basicData endpoint: without a VIN, with a VIN other than the
\* one asked for, and without brand and model.
BasicBodies ==
    { StdBody,
      BasicBody(TRUE, "VX", TRUE, "MINI", "Cooper"),
      BasicBody(FALSE, "", FALSE, "", "") }

\* VehicleBasicData.from_api, lines 46-55.
from_api(body) ==
    Identity(IF body.has_vin THEN body.vin ELSE "",
             IF body.named THEN body.brand ELSE "BMW",
             IF body.named THEN body.model ELSE "Unknown")

\* A discovery that keeps the VIN of the body.
discovered_unfixed(vin, out, body) ==
    IF out.exc = "APIError" THEN placeholder(vin) ELSE from_api(body)

\* BMWCarDataAPI.discover_vehicles, lines 276-286: the identity appended for
\* one VIN of the mapping list, from the outcome of its basicData call.
discovered(vin, out, body) ==
    IF out.exc = "APIError" THEN placeholder(vin)
    ELSE [from_api(body) EXCEPT !.vin = vin]

\* What the mapping endpoint may list.
VinLists == { <<>>, <<"V1">>, <<"V1", "V2">> }

\* The TokenResponse the device flow obtained (auth.py:190-197) at time t; the
\* server may leave out the id_token.
FlowTokens(t) ==
    { [access_token |-> 1, refresh_token |-> 1, id_token |-> id,
       expires_in |-> 3600, gcid |-> 1, token_time |-> t] : id \in {0, 1} }

NoTokens ==
    [access_token |-> 0, refresh_token |-> 0, id_token |-> 0,
     expires_in |-> 0, gcid |-> 0, token_time |-> 0]

\* No answer of the token endpoint.
NoPoll == [status |-> 0, error |-> "", complete |-> FALSE, full |-> FALSE]

\* The config flow: its step, the tokens it holds, the discovery's progress
\* (the VINs listed, the identities found and how each basicData call was
\* answered),
\* and the device-poll task's interval, deadline, polls sent, last answer and
\* exception.
NoFlow == [pc |-> "none", tokens |-> NoTokens, vins |-> <<>>, idx |-> 0,
           found |-> <<>>, answers |-> <<>>, sent_at |-> 0,
           interval |-> 0, deadline |-> 0, npolls |-> 0, resp |-> NoPoll,
           error |-> "none"]

Abort(f, reason) == [f EXCEPT !.pc = reason, !.idx = 0]

FlowLog == call_log["flow"]

\* async_step_discover, lines 186-192: a new client with the flow's access
\* token, then discover_vehicles asks for the mappings.
DiscoverStart ==
    /\ sys = "flow"
    /\ flow.pc = "discover"
    /\ access_token' = [access_token EXCEPT
                          !["flow"] = set_token(@, flow.tokens.access_token)]
    /\ LET chk == check_rate_limit(<<>>, now)
       IN /\ call_log' = [call_log EXCEPT !["flow"] = chk.log]
          /\ http_log' = Append(http_log, now)
          /\ flow' = [flow EXCEPT !.pc = "mappings_wait", !.sent_at = now]
    /\ UNCHANGED <<sys, entry, tokens, mqtt, container_id, vehicles, data, cycle,
                   polls, issued>>
    /\ UNCHANGED <<clockVars, callerVars>>

\* get_vehicle_mappings returns, and discover_vehicles asks for the first
\* VIN's basic data; an error of the mapping call aborts the step.
MappingsResponse(resp, vins) ==
    /\ sys = "flow"
    /\ flow.pc = "mappings_wait"
    /\ LET log == request_recorded(FlowLog, now)
           out == classify_request(resp)
       IN IF out.exc # "ok"
          THEN /\ call_log' = [call_log EXCEPT !["flow"] = log]
               /\ flow' = Abort(flow, "discovery_failed")
               /\ http_log' = http_log
          ELSE IF vins = <<>>
          THEN /\ call_log' = [call_log EXCEPT !["flow"] = log]
               /\ flow' = Abort(flow, "no_vehicles")
               /\ http_log' = http_log
          ELSE LET chk == check_rate_limit(log, now)
               IN /\ call_log' = [call_log EXCEPT !["flow"] = chk.log]
                  /\ IF chk.ok
                     THEN /\ http_log' = Append(http_log, now)
                          /\ flow' = [flow EXCEPT !.pc = "basic_wait", !.vins = vins,
                                                  !.idx = 1, !.sent_at = now]
                     ELSE /\ http_log' = http_log
                          /\ flow' = Abort(flow, "discovery_failed")
    /\ UNCHANGED <<sys, entry, tokens, mqtt, container_id, vehicles, data, cycle,
                   polls, issued, access_token>>
    /\ UNCHANGED <<clockVars, callerVars>>

\* get_vehicle_basic_data returns for VIN number flow.idx: its identity, or the
\* placeholder on an APIError; then the next VIN's call, or _create_entry.
BasicResponse(resp, body) ==
    /\ sys = "flow"
    /\ flow.pc = "basic_wait"
    /\ LET log == request_recorded(FlowLog, now)
           out == classify_request(resp)
           vin == flow.vins[flow.idx]
           found == Append(flow.found, discovered(vin, out, body))
           answers == Append(flow.answers,
                             IF out.exc = "APIError"
                             THEN [failed |-> TRUE, body |-> StdBody]
                             ELSE [failed |-> FALSE, body |-> body])
       IN IF out.exc = "None"
          THEN /\ call_log' = [call_log EXCEPT !["flow"] = log]
               /\ flow' = Abort(flow, "discovery_failed")
               /\ UNCHANGED <<http_log, sys, entry>>
          ELSE IF flow.idx < Len(flow.vins)
          THEN LET chk == check_rate_limit(log, now)
               IN /\ call_log' = [call_log EXCEPT !["flow"] = chk.log]
                  /\ UNCHANGED <<sys, entry>>
                  /\ IF chk.ok
                     THEN /\ http_log' = Append(http_log, now)
                          /\ flow' = [flow EXCEPT !.found = found, !.idx = @ + 1,
                                                  !.answers = answers,
                                                  !.sent_at = now]
                     ELSE /\ http_log' = http_log
                          /\ flow' = Abort(flow, "discovery_failed")
          ELSE /\ call_log' = [call_log EXCEPT !["flow"] = log]
               /\ http_log' = http_log
               /\ flow' = [flow EXCEPT !.pc = "done", !.found = found, !.idx = 0,
                                       !.answers = answers]
               /\ entry' = [tokens |-> as_dict(flow.tokens), vehicles |-> found]
               /\ sys' = "created"
    /\ UNCHANGED <<tokens, mqtt, container_id, vehicles, data, cycle, polls,
                   issued, access_token>>
    /\ UNCHANGED <<clockVars, callerVars>>

\* The connection of a discovery call cannot be established: the ClientError
\* is no APIError and aborts the step.
FlowConnError ==
    /\ sys = "flow"
    /\ flow.pc \in {"mappings_wait", "basic_wait"}
    /\ http_log' = Withdraw(http_log, flow.sent_at)
    /\ flow' = Abort(flow, "discovery_failed")
    /\ UNCHANGED <<sys, entry, tokens, mqtt, container_id, vehicles, data, cycle,
                   polls, issued, access_token, call_log>>
    /\ UNCHANGED <<clockVars, callerVars>>

\* ------------------------------------------------- the device-poll loop

Min(a, b) == IF a <= b THEN a ELSE b

\* What request_device_code returned: the poll interval and the life of the
\* device code, in seconds.
DeviceCodes ==
    { [interval |-> i, expires_in |-> e] : i \in {5, 9, 12}, e \in {15, 30} }

\* What the token endpoint may answer a poll with: the status, the body's
\* error code, and for a 200 whether the body has access_token and
\* refresh_token (complete) and the optional members (full).
PollAnswers ==
    { [status |-> 200, error |-> "", complete |-> TRUE, full |-> TRUE],
      [status |-> 200, error |-> "", complete |-> TRUE, full |-> FALSE],
      [status |-> 200, error |-> "", complete |-> FALSE, full |-> FALSE],
      [status |-> 400, error |-> "authorization_pending", complete |-> FALSE, full |-> FALSE],
      [status |-> 403, error |-> "", complete |-> FALSE, full |-> FALSE],
      [status |-> 400, error |-> "slow_down", complete |-> FALSE, full |-> FALSE],
      [status |-> 403, error |-> "slow_down", complete |-> FALSE, full |-> FALSE],
      [status |-> 401, error |-> "", complete |-> FALSE, full |-> FALSE],
      [status |-> 400, error |-> "expired_token", complete |-> FALSE, full |-> FALSE],
      [status |-> 400, error |-> "access_denied", complete |-> FALSE, full |-> FALSE] }

\* A TokenResponse stamped with a time of its own.
poll_token_response_unstamped(body, t) ==
    [access_token |-> 1,
     refresh_token |-> 1,
     id_token |-> IF body.full THEN 1 ELSE 0,
     expires_in |-> IF body.full THEN 3600 ELSE DEFAULT_EXPIRES_IN,
     gcid |-> IF body.full THEN 1 ELSE 0,
     token_time |-> 0]

\* BMWAuth.poll_for_token, lines 190-197: the TokenResponse of a 200 answer
\* received at time t.
poll_token_response(body, t) ==
    [access_token |-> 1,
     refresh_token |-> 1,
     id_token |-> IF body.full THEN 1 ELSE 0,
     expires_in |-> IF body.full THEN 3600 ELSE DEFAULT_EXPIRES_IN,
     gcid |-> IF body.full THEN 1 ELSE 0,
     token_time |-> t]

\* BMWAuth.poll_for_token, lines 189-209: what one poll returns or raises for
\* an answer; a 200 body without access_token or refresh_token is a KeyError.
poll_for_token(resp) ==
    IF resp.status = 200
    THEN IF resp.complete THEN "ok" ELSE "KeyError"
    ELSE IF resp.error = "authorization_pending" \/ resp.status = 403
    THEN "AuthorizationPending"
    ELSE IF resp.error = "slow_down" THEN "SlowDown"
    ELSE IF resp.status = 401 THEN "DeviceCodeExpired"
    ELSE "AuthError"

\* A loop that adds two seconds without a cap.
next_interval_uncapped(interval, exc) ==
    IF exc = "SlowDown" THEN interval + 2 ELSE interval

\* _poll_for_authorization, lines 157-161: the interval after a poll that
\* raised exc.
next_interval(interval, exc) ==
    IF exc = "SlowDown" THEN Min(interval + 2, 10) ELSE interval

\* How long after a poll was sent its answer may arrive, in ticks.
Latencies == {0, 1}

\* async_step_authorize creates the task; _poll_for_authorization, lines
\* 141-148: the interval and the deadline of the device code.
LoginStart(dc) ==
    /\ sys = "flow"
    /\ flow.pc = "authorize"
    /\ flow' = [flow EXCEPT !.pc = "loop", !.interval = dc.interval,
                            !.deadline = now + Seconds(dc.expires_in)]
    /\ last' = Last("login", 0, "started", 0, 0)
    /\ UNCHANGED <<now, clock_steps, caller, nreq>>
    /\ UNCHANGED <<sys, entry, tokens, mqtt, container_id, vehicles, data, cycle,
                   polls, issued, call_log, access_token, http_log>>

\* A loop whose deadline never comes.
before_deadline_never(t, deadline) == TRUE

\* The while test of line 150.
before_deadline(t, deadline) == t < deadline

\* The while test of line 150: the loop sleeps for the interval, or raises
\* DeviceCodeExpired("Polling deadline exceeded").
LoopTest ==
    /\ sys = "flow"
    /\ flow.pc = "loop"
    /\ IF before_deadline(now, flow.deadline)
       THEN /\ flow' = [flow EXCEPT !.pc = "sleeping"]
            /\ last' = Last("login", 0, "sleep", 0, flow.interval)
       ELSE /\ flow' = [flow EXCEPT !.pc = "login_failed",
                                    !.error = "DeviceCodeExpired"]
            /\ last' = Last("login", 0, "DeviceCodeExpired", 0, 0)
    /\ UNCHANGED <<now, clock_steps, caller, nreq>>
    /\ UNCHANGED <<sys, entry, tokens, mqtt, container_id, vehicles, data, cycle,
                   polls, issued, call_log, access_token, http_log>>

\* asyncio.sleep(interval) is over: poll_for_token posts to the token endpoint.
PollSend ==
    /\ sys = "flow"
    /\ flow.pc = "sleeping"
    /\ now' = now + Seconds(flow.interval)
    /\ flow' = [flow EXCEPT !.pc = "poll_wait", !.npolls = @ + 1, !.sent_at = now']
    /\ last' = Last("poll_for_token", 0, "sent", 0, flow.interval)
    /\ UNCHANGED <<clock_steps, caller, nreq>>
    /\ UNCHANGED <<sys, entry, tokens, mqtt, container_id, vehicles, data, cycle,
                   polls, issued, call_log, access_token, http_log>>

\* The answer to the poll arrives: the tokens are stored and the task returns,
\* the loop goes on, or the task ends with the exception.
PollAnswer(resp, lat) ==
    /\ sys = "flow"
    /\ flow.pc = "poll_wait"
    /\ now' = now + lat
    /\ LET exc == poll_for_token(resp)
       IN /\ flow' =
                IF exc = "ok"
                THEN [flow EXCEPT !.pc = "login_done", !.resp = resp,
                                  !.tokens = poll_token_response(resp, now')]
                ELSE IF exc \in {"AuthorizationPending", "SlowDown"}
                THEN [flow EXCEPT !.pc = "loop", !.resp = resp,
                                  !.interval = next_interval(@, exc)]
                ELSE [flow EXCEPT !.pc = "login_failed", !.resp = resp,
                                  !.error = exc]
          /\ last' = Last("poll_for_token", 0, exc, resp.status, 0)
    /\ UNCHANGED <<clock_steps, caller, nreq>>
    /\ UNCHANGED <<sys, entry, tokens, mqtt, container_id, vehicles, data, cycle,
                   polls, issued, call_log, access_token, http_log>>

\* The connection to the token endpoint fails: the ClientError ends the task.
PollConnError ==
    /\ sys = "flow"
    /\ flow.pc = "poll_wait"
    /\ flow' = [flow EXCEPT !.pc = "login_failed", !.error = "ClientError",
                            !.resp = NoPoll]
    /\ last' = Last("poll_for_token", 0, "ClientError", 0, 0)
    /\ UNCHANGED <<now, clock_steps, caller, nreq>>
    /\ UNCHANGED <<sys, entry, tokens, mqtt, container_id, vehicles, data, cycle,
                   polls, issued, call_log, access_token, http_log>>

\* async_step_authorize is entered again once the task is done, lines 121-126:
\* on to discovery, or to authorize_failed, which aborts the flow.
AuthorizeDone ==
    /\ sys = "flow"
    /\ flow.pc \in {"login_done", "login_failed"}
    /\ flow' = IF flow.pc = "login_failed" \/ flow.tokens = NoTokens
               THEN [flow EXCEPT !.pc = "authorization_failed"]
               ELSE [flow EXCEPT !.pc = "discover"]
    /\ last' = Last("authorize", 0, "done", 0, 0)
    /\ UNCHANGED <<now, clock_steps, caller, nreq>>
    /\ UNCHANGED <<sys, entry, tokens, mqtt, container_id, vehicles, data, cycle,
                   polls, issued, call_log, access_token, http_log>>

\* ------------------------------------------------------------- the stream

\* BMWMQTTStream.__init__: the stream of a credential, with no task yet.
\* task is _task (none, running, done), pc the place the running task is
\* suspended at, cancelled whether its cancellation is requested, stopping
\* the call of stop that awaits it; cred is the password of the latest
\* connection attempt, wake the time the backoff sleep ends, fails the
\* failures since the last connect and nfail all failures so far.
\* awaited_done tells that the task an awaiting stop() cancelled is over while
\* _task is a newer one, and orphans counts the tasks that are alive and that
\* _task no longer refers to.
Stream(id_token) ==
    [exists |-> TRUE, id_token |-> id_token, task |-> "none", pc |-> "none",
     cancelled |-> FALSE, stop_event |-> FALSE, stopping |-> "no",
     backoff |-> MQTT_RECONNECT_MIN, cred |-> 0, wake |-> 0, fails |-> 0,
     nfail |-> 0, awaited_done |-> FALSE, orphans |-> 0]

\* A start that always creates a task.
start_again(s) ==
    [s EXCEPT !.stop_event = FALSE, !.task = "running", !.pc = "loop",
              !.cancelled = FALSE]

\* BMWMQTTStream.start, lines 61-67: nothing when _task is not done, else the
\* event is cleared and _task is a new task; a stop() whose task is over and
\* which has not been resumed yet still holds the old one.
start(s) ==
    IF s.task = "running" THEN s
    ELSE [s EXCEPT !.stop_event = FALSE, !.task = "running", !.pc = "loop",
                   !.cancelled = FALSE, !.awaited_done = (s.stopping # "no")]

\* A stop that sets the event and returns without the task.
stop_call_detached(s, who) ==
    [s EXCEPT !.stop_event = TRUE, !.task = IF @ = "done" THEN "none" ELSE @]

\* A stop that sets the event and awaits the task without cancelling it.
stop_call_uncancelled(s, who) ==
    IF s.task = "none" THEN [s EXCEPT !.stop_event = TRUE]
    ELSE IF s.task = "done" THEN [s EXCEPT !.stop_event = TRUE, !.task = "none"]
    ELSE [s EXCEPT !.stop_event = TRUE, !.stopping = who]

\* BMWMQTTStream.stop, lines 71-75: the event is set and the task cancelled;
\* stop then awaits the task, unless there is none or it is done already.
stop_call(s, who) ==
    IF s.task = "none" THEN [s EXCEPT !.stop_event = TRUE]
    ELSE IF s.task = "done" THEN [s EXCEPT !.stop_event = TRUE, !.task = "none"]
    ELSE [s EXCEPT !.stop_event = TRUE, !.cancelled = TRUE, !.stopping = who]

\* BMWMQTTStream.stop, lines 76-78, and stop_mqtt, line 259: the awaited task
\* is over, _task is cleared, and stop_mqtt drops the stream.
stop_return(s) ==
    IF s.stopping = "unload" THEN NoStream
    ELSE [s EXCEPT !.task = "none", !.pc = "none", !.stopping = "no",
                   !.awaited_done = FALSE,
                   !.orphans = IF s.task = "running" THEN @ + 1 ELSE @]

\* _run_loop, line 96, and _connect_and_listen, lines 136-144: the loop ends
\* when the stop event is set, and else opens a connection with the
\* credential the stream holds now.
loop_head(s) ==
    IF s.stop_event THEN [s EXCEPT !.task = "done", !.pc = "none"]
    ELSE [s EXCEPT !.pc = "connecting", !.cred = s.id_token]

\* _connect_and_listen, lines 145-146: the broker accepted the connection.
connected(s) == [s EXCEPT !.pc = "subscribing", !.backoff = MQTT_RECONNECT_MIN,
                          !.fails = 0]

\* A loop that lets the exception of the connection end the task.
connection_failed_fatal(s, t) ==
    [s EXCEPT !.task = "done", !.pc = "none", !.fails = @ + 1, !.nfail = @ + 1]

\* _run_loop, lines 102-110: an exception of the connection is logged and the
\* task waits for the stop event for at most the backoff delay.
connection_failed(s, t) ==
    [s EXCEPT !.pc = "backoff", !.wake = t + Seconds(s.backoff),
              !.fails = @ + 1, !.nfail = @ + 1]

\* A backoff that starts over after every sleep.
next_backoff_flat(backoff) == MQTT_RECONNECT_MIN

\* _run_loop, line 116.
next_backoff(backoff) == Min(backoff * 2, MQTT_RECONNECT_MAX)

\* Everything but the stream, the clock and the outcome of the step; the
\* entry is unloaded once stop_mqtt has dropped the stream.
StreamFrame ==
    /\ sys' = IF mqtt.exists /\ ~mqtt'.exists THEN "unloaded" ELSE sys
    /\ UNCHANGED <<flow, entry, tokens, container_id, vehicles, data, cycle,
                   polls, issued, call_log, access_token, http_log, clock_steps,
                   caller, nreq>>

\* A call of start(); the holder of the stream calls start and stop one after
\* the other, never start while a stop is awaiting the task.
StreamStart ==
    /\ mqtt.exists
    /\ mqtt.stopping = "no"
    /\ mqtt' = start(mqtt)
    /\ last' = Last("start", 0, IF mqtt.task = "running" THEN "already_running"
                                ELSE "started", 0, 0)
    /\ UNCHANGED now
    /\ StreamFrame

\* A call of stop() by the holder of the stream, or by stop_mqtt when the
\* entry is unloaded, up to its await or to its return.
StreamStop(who) ==
    /\ mqtt.exists
    /\ mqtt.stopping = "no"
    /\ LET s == stop_call(mqtt, who)
       IN IF s.stopping = "no"
          THEN /\ mqtt' = IF who = "unload" THEN NoStream ELSE s
               /\ last' = Last("stop", 0, "returned", 0, 0)
          ELSE /\ mqtt' = s
               /\ last' = Last("stop", 0, "awaiting", 0, 0)
    /\ UNCHANGED now
    /\ StreamFrame

\* The cancelled task is resumed with CancelledError, which _run_loop
\* re-raises (lines 100-101): the task is over.
TaskCancelled ==
    /\ mqtt.task = "running"
    /\ mqtt.cancelled
    /\ mqtt' = [mqtt EXCEPT !.task = "done", !.pc = "none", !.cancelled = FALSE]
    /\ last' = Last("stream", 0, "cancelled", 0, 0)
    /\ UNCHANGED now
    /\ StreamFrame

\* A call of start() by another caller while a stop() is suspended at its
\* await of the task, before or after that task is over.
ConcurrentStart ==
    /\ mqtt.exists
    /\ mqtt.stopping # "no"
    /\ mqtt.orphans < MaxOrphans
    /\ mqtt' = start(mqtt)
    /\ last' = Last("start", 0, IF mqtt.task = "running" THEN "already_running"
                                ELSE "started", 0, 0)
    /\ UNCHANGED now
    /\ StreamFrame

\* The awaited task is over: stop() is resumed, clears _task whatever it is
\* by now, and returns.
StopReturn ==
    /\ mqtt.stopping # "no"
    /\ mqtt.task = "done" \/ mqtt.awaited_done
    /\ mqtt' = stop_return(mqtt)
    /\ last' = Last("stop", 0, "returned", 0, 0)
    /\ UNCHANGED now
    /\ StreamFrame

\* The new task runs for the first time.
TaskBegin ==
    /\ mqtt.task = "running"
    /\ ~mqtt.cancelled
    /\ mqtt.pc = "loop"
    /\ mqtt' = loop_head(mqtt)
    /\ last' = Last("stream", 0, IF mqtt.stop_event THEN "returned" ELSE "connect",
                    0, 0)
    /\ UNCHANGED now
    /\ StreamFrame

\* The broker accepts the connection.
ConnectOk ==
    /\ mqtt.task = "running"
    /\ ~mqtt.cancelled
    /\ mqtt.pc = "connecting"
    /\ mqtt' = connected(mqtt)
    /\ last' = Last("stream", 0, "connected", 0, 0)
    /\ UNCHANGED now
    /\ StreamFrame

\* The topics are subscribed (lines 149-152): the task listens.
SubscribeOk ==
    /\ mqtt.task = "running"
    /\ ~mqtt.cancelled
    /\ mqtt.pc = "subscribing"
    /\ mqtt' = [mqtt EXCEPT !.pc = "listening"]
    /\ last' = Last("stream", 0, "listening", 0, 0)
    /\ UNCHANGED now
    /\ StreamFrame

\* Connecting, subscribing or listening raises: the connection is refused or
\* lost.
ConnectionError(limit) ==
    /\ mqtt.task = "running"
    /\ ~mqtt.cancelled
    /\ mqtt.pc \in {"connecting", "subscribing", "listening"}
    /\ mqtt.nfail < limit
    /\ mqtt' = connection_failed(mqtt, now)
    /\ last' = Last("stream", 0, "failed", 0, mqtt.backoff)
    /\ UNCHANGED now
    /\ StreamFrame

\* The backoff sleep is over (lines 113-116): the delay is doubled and the
\* loop goes on to its next connection attempt.
BackoffOver ==
    /\ mqtt.task = "running"
    /\ ~mqtt.cancelled
    /\ mqtt.pc = "backoff"
    /\ now' = IF now < mqtt.wake THEN mqtt.wake ELSE now
    /\ mqtt' = loop_head([mqtt EXCEPT !.backoff = next_backoff(@)])
    /\ last' = Last("stream", 0, "reconnect", 0, now' - now)
    /\ StreamFrame

\* The message iterator ends without an exception (lines 98-100): the delay
\* is reset and the loop reconnects at once.
CleanDisconnect ==
    /\ mqtt.task = "running"
    /\ ~mqtt.cancelled
    /\ mqtt.pc = "listening"
    /\ mqtt' = loop_head([mqtt EXCEPT !.backoff = MQTT_RECONNECT_MIN, !.fails = 0])
    /\ last' = Last("stream", 0, "disconnected", 0, 0)
    /\ UNCHANGED now
    /\ StreamFrame

\* A call of update_token(id_token).
StreamUpdateToken(id_token) ==
    /\ mqtt.exists
    /\ mqtt' = update_token(mqtt, id_token)
    /\ last' = Last("update_token", 0, "ok", 0, id_token)
    /\ UNCHANGED now
    /\ StreamFrame

\* ------------------------------------------------------------ coordinator

\* stale is the access token the coordinator held when the cycle was entered,
\* if that token was inside the refresh margin then, and else 0.
IdleCycle ==
    [pc |-> "idle", idx |-> 0, result |-> "none", ncalls |-> 0,
     refresh_arg |-> 0, sent_at |-> 0, stale |-> 0]

\* The access token of tok if time t is inside its refresh margin, else 0.
margin_token(tok, t) ==
    IF t >= expiry_timestamp(tok) - Seconds(TOKEN_REFRESH_MARGIN)
    THEN tok.access_token ELSE 0

\* The part of the state a poll cycle's step works on.
Ctx(k) ==
    [log |-> call_log["coord"], http |-> http_log, cid |-> container_id,
     data |-> data, cyc |-> cycle[k], last |-> last]

Apply(k, r) ==
    /\ call_log' = [call_log EXCEPT !["coord"] = r.log]
    /\ http_log' = r.http
    /\ container_id' = r.cid
    /\ data' = r.data
    /\ cycle' = [cycle EXCEPT ![k] = r.cyc]
    /\ last' = r.last

\* _async_update_data returns self.data or raises `result`.
Done(ctx, result) ==
    [ctx EXCEPT !.cyc = [IdleCycle EXCEPT !.result = result]]

\* A REST call of the cycle passed _check_rate_limit and is sent.
Sent(ctx, chk, pc, idx, t) ==
    [ctx EXCEPT !.log = chk.log, !.http = Append(@, t), !.cyc.pc = pc,
                !.cyc.idx = idx, !.cyc.ncalls = @ + 1, !.cyc.sent_at = t]

\* A loop that reports the exhausted budget as a failed poll.
RECURSIVE fetch_from_failing(_, _, _, _)
fetch_from_failing(ctx, i, vs, t) ==
    IF i > Len(vs) THEN Done(ctx, "ok")
    ELSE IF vs[i].vin = "" THEN fetch_from_failing(ctx, i + 1, vs, t)
    ELSE LET chk == check_rate_limit(ctx.log, t)
         IN IF chk.ok THEN Sent(ctx, chk, "fetch_wait", i, t)
            ELSE Done([ctx EXCEPT !.log = chk.log], "UpdateFailed")

\* _async_update_data, lines 145-156, from vehicle number i on: empty VINs are
\* skipped; the next fetch is sent, or RateLimitExceeded breaks the loop and the
\* cycle returns.
RECURSIVE fetch_from(_, _, _, _)
fetch_from(ctx, i, vs, t) ==
    IF i > Len(vs) THEN Done(ctx, "ok")
    ELSE IF vs[i].vin = "" THEN fetch_from(ctx, i + 1, vs, t)
    ELSE LET chk == check_rate_limit(ctx.log, t)
         IN IF chk.ok THEN Sent(ctx, chk, "fetch_wait", i, t)
            ELSE Done([ctx EXCEPT !.log = chk.log], "ok")

\* A cycle that reports a missing container id as a failed poll.
after_container_failing(ctx, vs, t) ==
    IF ctx.cid = "" THEN Done(ctx, "UpdateFailed") ELSE fetch_from(ctx, 1, vs, t)

\* _async_update_data, lines 141-145: without a container id the cycle returns.
after_container(ctx, vs, t) ==
    IF ctx.cid = "" THEN Done(ctx, "ok") ELSE fetch_from(ctx, 1, vs, t)

\* _ensure_container up to its first await: get_containers is sent, or its
\* RateLimitExceeded is logged by `except Exception`.
ensure_container(ctx, vs, t) ==
    LET chk == check_rate_limit(ctx.log, t)
    IN IF chk.ok THEN Sent(ctx, chk, "list_wait", 0, t)
       ELSE after_container([ctx EXCEPT !.log = chk.log], vs, t)

\* _async_update_data, lines 137-139, once the token is valid.
after_token(ctx, vs, t) ==
    IF ctx.cid = "" THEN ensure_container(ctx, vs, t) ELSE fetch_from(ctx, 1, vs, t)

\* _ensure_container, lines 165-175: the id of the first container that has one.
RECURSIVE first_container(_)
first_container(cs) ==
    IF cs = <<>> THEN ""
    ELSE IF Head(cs) # "" THEN Head(cs)
    ELSE first_container(Tail(cs))

\* What the container endpoints may answer: the ids listed ("" for a container
\* without id), and the containerId of a created one ("" when missing).
ContainerLists == { <<>>, <<"", "c1">> }
CreatedIds == { "", "c2" }

\* The bodies the token endpoint may answer a refresh with.
RefreshBodies ==
    { [has_refresh |-> TRUE, has_id |-> TRUE, has_expires |-> TRUE,
       expires_in |-> 3600, has_gcid |-> TRUE],
      [has_refresh |-> FALSE, has_id |-> FALSE, has_expires |-> FALSE,
       expires_in |-> 0, has_gcid |-> FALSE] }

\* async_setup_entry, lines 25-56: tokens and vehicles are restored from the
\* config entry and the coordinator is constructed, with its own REST client.
Setup ==
    /\ sys = "created"
    /\ sys' = "first_refresh"
    /\ tokens' = from_dict(entry.tokens)
    /\ vehicles' = entry.vehicles
    /\ call_log' = [call_log EXCEPT !["coord"] = <<>>]
    /\ access_token' = [access_token EXCEPT
                          !["coord"] = set_token(@, entry.tokens.access_token)]
    /\ mqtt' = NoStream
    /\ container_id' = ""
    /\ data' = [vin \in {entry.vehicles[i].vin : i \in 1..Len(entry.vehicles)} |->
                  VehicleData(CHOOSE v \in {entry.vehicles[i] : i \in 1..Len(entry.vehicles)} :
                                v.vin = vin)]
    /\ UNCHANGED <<flow, entry, cycle, polls, issued, http_log>>
    /\ UNCHANGED <<clockVars, callerVars>>

\* The first poll cycle has returned: start_mqtt, lines 242-253.
StartMqtt ==
    /\ sys = "first_refresh"
    /\ cycle[1].pc = "idle"
    /\ cycle[1].result = "ok"
    /\ sys' = "running"
    /\ mqtt' = IF tokens.id_token = 0 THEN NoStream
               ELSE start(Stream(tokens.id_token))
    /\ UNCHANGED <<flow, entry, tokens, container_id, vehicles, data, cycle, polls,
                   issued, call_log, access_token, http_log>>
    /\ UNCHANGED <<clockVars, callerVars>>

\* The first poll cycle has raised: async_setup_entry does not complete.
SetupFailed ==
    /\ sys = "first_refresh"
    /\ cycle[1].pc = "idle"
    /\ cycle[1].result \in {"ConfigEntryAuthFailed", "UpdateFailed"}
    /\ sys' = "failed"
    /\ UNCHANGED <<flow, entry, tokens, mqtt, container_id, vehicles, data, cycle,
                   polls, issued, call_log, access_token, http_log>>
    /\ UNCHANGED <<clockVars, callerVars>>

\* _async_update_data is entered: _ensure_valid_token up to its await, and when
\* no refresh is due the cycle goes on to its first REST call.
CycleStart(k) ==
    /\ \/ sys = "running"
       \/ sys = "first_refresh" /\ k = 1 /\ polls = 0
    /\ cycle[k].pc = "idle"
    /\ polls < MaxPolls
    /\ polls' = polls + 1
    /\ IF refresh_due(tokens, now)
       THEN /\ cycle' = [cycle EXCEPT
                           ![k] = [IdleCycle EXCEPT
                                     !.pc = "refresh_wait",
                                     !.refresh_arg = tokens.refresh_token,
                                     !.stale = margin_token(tokens, now)]]
            /\ last' = Last("poll", k, "refresh", 0, 0)
            /\ UNCHANGED <<call_log, http_log, container_id, data>>
       ELSE Apply(k, after_token([Ctx(k) EXCEPT
                                    !.cyc = [IdleCycle EXCEPT
                                               !.stale = margin_token(tokens, now)],
                                    !.last = Last("poll", k, "valid", 0, 0)],
                                 vehicles, now))
    /\ UNCHANGED <<sys, flow, entry, tokens, mqtt, vehicles, issued, access_token>>
    /\ UNCHANGED <<clockVars, caller, nreq>>

\* refresh_tokens returns a TokenResponse: lines 104-121 run without an await,
\* and the cycle goes on to its first REST call.
RefreshOk(k, body) ==
    /\ cycle[k].pc = "refresh_wait"
    /\ issued' = issued + 1
    /\ LET new == refresh_token_response(issued + 2, body, cycle[k].refresh_arg, now)
       IN /\ tokens' = new
          /\ access_token' = [access_token EXCEPT
                                !["coord"] = set_token(@, new.access_token)]
          /\ mqtt' = update_token(mqtt, new.id_token)
          /\ entry' = [entry EXCEPT !.tokens = persisted(@, new)]
    /\ Apply(k, after_token([Ctx(k) EXCEPT !.last = Last("refresh", k, "ok", 200, 0)],
                             vehicles, now))
    /\ UNCHANGED <<sys, flow, vehicles, polls>>
    /\ UNCHANGED <<clockVars, caller, nreq>>

\* refresh_tokens raises: TokenRefreshFailed on a non-200 answer, or another
\* exception (no connection, no JSON, no access_token in the body).
RefreshFails(k, exc) ==
    /\ cycle[k].pc = "refresh_wait"
    /\ cycle' = [cycle EXCEPT ![k] = [IdleCycle EXCEPT !.result = cycle_error(exc)]]
    /\ last' = Last("refresh", k, exc, 0, 0)
    /\ UNCHANGED <<sys, flow, entry, tokens, mqtt, container_id, vehicles, data,
                   polls, issued, call_log, access_token, http_log>>
    /\ UNCHANGED <<clockVars, caller, nreq>>

\* The response of the cycle's suspended call has arrived and is recorded.
Recorded(ctx, op, k, log, out) ==
    [ctx EXCEPT !.log = log, !.last = Last(op, k, out.exc, out.status, 0)]

\* get_containers returns in _ensure_container: the first container with an id
\* is reused, else create_container is sent; any error is logged.
ListResponse(k, resp, cs) ==
    /\ cycle[k].pc = "list_wait"
    /\ LET out == classify_request(resp)
           ctx == Recorded(Ctx(k), "get_containers", k,
                           request_recorded(call_log["coord"], now), out)
       IN IF out.exc # "ok"
          THEN Apply(k, after_container(ctx, vehicles, now))
          ELSE IF first_container(cs) # ""
          THEN Apply(k, after_container([ctx EXCEPT !.cid = first_container(cs)],
                                        vehicles, now))
          ELSE LET chk == check_rate_limit(ctx.log, now)
               IN IF chk.ok
                  THEN Apply(k, Sent(ctx, chk, "create_wait", 0, now))
                  ELSE Apply(k, after_container([ctx EXCEPT !.log = chk.log],
                                                vehicles, now))
    /\ UNCHANGED <<sys, flow, entry, tokens, mqtt, vehicles, polls, issued,
                   access_token>>
    /\ UNCHANGED <<clockVars, caller, nreq>>

\* create_container's POST returns in _ensure_container.
CreateResponse(k, resp, cid) ==
    /\ cycle[k].pc = "create_wait"
    /\ LET out == classify_create(resp)
           ctx == Recorded(Ctx(k), "create_container", k,
                           create_recorded(call_log["coord"], now), out)
       IN IF out.exc # "ok"
          THEN Apply(k, after_container(ctx, vehicles, now))
          ELSE Apply(k, after_container([ctx EXCEPT !.cid = cid], vehicles, now))
    /\ UNCHANGED <<sys, flow, entry, tokens, mqtt, vehicles, polls, issued,
                   access_token>>
    /\ UNCHANGED <<clockVars, caller, nreq>>

\* get_telematic_data returns in _fetch_telemetry for vehicle number idx: a 401
\* raises ConfigEntryAuthFailed, another APIError is logged, entries are merged;
\* then the loop goes on with the next vehicle.
FetchResponse(k, resp, payload) ==
    /\ cycle[k].pc = "fetch_wait"
    /\ LET out == classify_request(resp)
           i == cycle[k].idx
           vin == vehicles[i].vin
           ctx == Recorded(Ctx(k), "get_telematic_data", k,
                           request_recorded(call_log["coord"], now), out)
           entries == IF out.exc = "None" THEN NoData ELSE telematic_entries(payload)
       IN IF out.exc = "APIError" /\ out.status = 401
          THEN Apply(k, Done(ctx, "ConfigEntryAuthFailed"))
          ELSE IF out.exc = "APIError"
          THEN Apply(k, fetch_from(ctx, i + 1, vehicles, now))
          ELSE Apply(k, fetch_from(
                          [ctx EXCEPT !.data = merge_rest_data(@, vin, entries, now)],
                          i + 1, vehicles, now))
    /\ UNCHANGED <<sys, flow, entry, tokens, mqtt, vehicles, polls, issued,
                   access_token>>
    /\ UNCHANGED <<clockVars, caller, nreq>>

\* The connection of a REST call of the cycle cannot be established: the
\* ClientError is logged by `except Exception` and the cycle goes on.
CycleConnError(k) ==
    /\ cycle[k].pc \in {"list_wait", "create_wait", "fetch_wait"}
    /\ LET ctx == [Ctx(k) EXCEPT !.http = Withdraw(@, cycle[k].sent_at),
                                 !.cyc.ncalls = @ - 1,
                                 !.last = Last("rest", k, "ClientError", 0, 0)]
       IN IF cycle[k].pc = "fetch_wait"
          THEN Apply(k, fetch_from(ctx, cycle[k].idx + 1, vehicles, now))
          ELSE Apply(k, after_container(ctx, vehicles, now))
    /\ UNCHANGED <<sys, flow, entry, tokens, mqtt, vehicles, polls, issued,
                   access_token>>
    /\ UNCHANGED <<clockVars, caller, nreq>>

\* ------------------------------------------------------- the MQTT stream

\* A telemetry item with its own timestamp.
ItemAt(v, unit, ts) == [value |-> v, unit |-> unit, timestamp |-> ts]

\* The "data" member of a stream payload: an object of descriptor -> item
\* ("dict"), missing or null ("none"), or something that is no object
\* ("other").  The items carry a timestamp older than the REST items'.
PushData ==
    { [kind |-> "dict", items |-> [d \in {"d1"} |-> ItemAt(JStr("b"), "km", "t0")]],
      [kind |-> "dict", items |-> [d \in {"d1", "d2"} |->
                                     IF d = "d1" THEN ItemAt(JNull, "km", "t0")
                                     ELSE ItemAt(JNum(2), "%", "t0")]],
      [kind |-> "none", items |-> NoData],
      [kind |-> "other", items |-> NoData] }

\* A message of the broker: the segments of its topic cardata/{vin}/telemetry
\* (parts) with the second of them (topic_vin), and its decoded payload, a
\* JSON object with or without a "vin" member.
PushMessages ==
    { [topic_vin |-> "V1", parts |-> 3, shape |-> "object", has_vin |-> FALSE,
       vin |-> "", data |-> pd] :
        pd \in PushData }
    \cup
    { [topic_vin |-> "VX", parts |-> 3, shape |-> "object", has_vin |-> hv,
       vin |-> IF hv THEN "V2" ELSE "",
       data |-> CHOOSE pd \in PushData : DOMAIN pd.items = {"d1"}] :
        hv \in BOOLEAN }

\* The entries one message carries for descriptor d1, in either wire shape: as
\* the "data" member of an object, or as a flat JSON list of entries (for
\* which data.items holds the entries of the list).
OneEntry == CHOOSE pd \in PushData : DOMAIN pd.items = {"d1"}

\* The messages of a stream followed with its task: an object and a flat
\* list for a vehicle of the store, and an object for an unknown vehicle.
StreamMessages ==
    { [topic_vin |-> "V1", parts |-> 3, shape |-> "object", has_vin |-> TRUE,
       vin |-> "V1", data |-> OneEntry],
      [topic_vin |-> "V1", parts |-> 3, shape |-> "list", has_vin |-> FALSE,
       vin |-> "", data |-> OneEntry],
      [topic_vin |-> "VX", parts |-> 3, shape |-> "object", has_vin |-> FALSE,
       vin |-> "", data |-> OneEntry] }

\* Messages _handle_message cannot hand on: a payload that is no UTF-8 or no
\* JSON (data is what a parser that guessed would have read), and a topic of
\* one segment, without the place of the VIN, whose payload names a vehicle.
BadMessages ==
    { [topic_vin |-> "V1", parts |-> 3, shape |-> "undecodable", has_vin |-> FALSE,
       vin |-> "", data |-> OneEntry],
      [topic_vin |-> "", parts |-> 1, shape |-> "object", has_vin |-> TRUE,
       vin |-> "V1", data |-> OneEntry] }

\* Entries that keep the items without value, stored as the string of None.
mqtt_entries_unfiltered(items) ==
    [d \in DOMAIN items |->
        [name |-> d,
         value |-> IF items[d].value.t = "null" THEN "None" ELSE str(items[d].value),
         unit |-> items[d].unit, timestamp |-> items[d].timestamp]]

\* _on_mqtt_message, lines 283-296: the entries a "data" object gives.
mqtt_entries(items) ==
    [d \in {x \in DOMAIN items : items[x].value.t # "null"} |->
        [name |-> d, value |-> str(items[d].value),
         unit |-> items[d].unit, timestamp |-> items[d].timestamp]]

\* A callback that forgets the entries the vehicle has that the message
\* does not carry.
on_mqtt_message_replacing(store, vin, payload, t) ==
    LET msg_vin == IF payload.has_vin THEN payload.vin ELSE vin
    IN IF msg_vin \notin DOMAIN store \/ payload.data.kind = "other"
       THEN [data |-> store, notified |-> FALSE]
       ELSE [data |-> [store EXCEPT ![msg_vin] =
                         [@ EXCEPT !.telemetry = mqtt_entries(payload.data.items),
                                   !.mqtt_updated = t]],
             notified |-> TRUE]

\* A callback that takes away an entry it already holds instead of writing it.
on_mqtt_message_toggling(store, vin, payload, t) ==
    LET msg_vin == IF payload.has_vin THEN payload.vin ELSE vin
        entries == mqtt_entries(payload.data.items)
    IN IF msg_vin \notin DOMAIN store \/ payload.data.kind = "other"
       THEN [data |-> store, notified |-> FALSE]
       ELSE [data |-> [store EXCEPT ![msg_vin] =
                         [@ EXCEPT
                            !.telemetry =
                               [d \in (DOMAIN @ \cup DOMAIN entries)
                                        \ (DOMAIN @ \cap DOMAIN entries) |->
                                  IF d \in DOMAIN entries THEN entries[d] ELSE @[d]],
                            !.mqtt_updated = t]],
             notified |-> TRUE]

\* A callback that stores the update and leaves the notification to the next
\* poll.
on_mqtt_message_silent(store, vin, payload, t) ==
    LET msg_vin == IF payload.has_vin THEN payload.vin ELSE vin
        entries == mqtt_entries(payload.data.items)
    IN IF msg_vin \notin DOMAIN store \/ payload.data.kind = "other"
       THEN [data |-> store, notified |-> FALSE]
       ELSE [data |-> [store EXCEPT ![msg_vin] =
                         [@ EXCEPT
                            !.telemetry = [d \in DOMAIN @ \cup DOMAIN entries |->
                                             IF d \in DOMAIN entries THEN entries[d]
                                             ELSE @[d]],
                            !.mqtt_updated = t]],
             notified |-> FALSE]

\* A callback that takes a vehicle it does not know into the store.
on_mqtt_message_adopting(store, vin, payload, t) ==
    LET msg_vin == IF payload.has_vin THEN payload.vin ELSE vin
        entries == mqtt_entries(payload.data.items)
        known == [v \in DOMAIN store \cup {msg_vin} |->
                    IF v \in DOMAIN store THEN store[v]
                    ELSE VehicleData(placeholder(v))]
    IN IF payload.shape = "list" \/ payload.data.kind = "other"
       THEN [data |-> store, notified |-> FALSE]
       ELSE [data |-> [known EXCEPT ![msg_vin] =
                         [@ EXCEPT
                            !.telemetry = [d \in DOMAIN @ \cup DOMAIN entries |->
                                             IF d \in DOMAIN entries THEN entries[d]
                                             ELSE @[d]],
                            !.mqtt_updated = t]],
             notified |-> TRUE]

\* A callback that stamps every vehicle of the store with the push.
on_mqtt_message_broadcast(store, vin, payload, t) ==
    LET msg_vin == IF payload.has_vin THEN payload.vin ELSE vin
        entries == mqtt_entries(payload.data.items)
    IN IF payload.shape = "list" \/ msg_vin \notin DOMAIN store
          \/ payload.data.kind = "other"
       THEN [data |-> store, notified |-> FALSE]
       ELSE [data |-> [u \in DOMAIN store |->
                         IF u = msg_vin
                         THEN [store[u] EXCEPT
                                 !.telemetry = [d \in DOMAIN @ \cup DOMAIN entries |->
                                                  IF d \in DOMAIN entries
                                                  THEN entries[d] ELSE @[d]],
                                 !.mqtt_updated = t]
                         ELSE [store[u] EXCEPT !.mqtt_updated = t]],
             notified |-> TRUE]

\* BMWCarDataCoordinator._on_mqtt_message: the store after the message and
\* whether async_set_updated_data was called.  A payload that is a list has
\* no get: line 270 raises AttributeError, which _handle_message logs
\* (mqtt_stream.py:177-178).
on_mqtt_message(store, vin, payload, t) ==
    LET msg_vin == IF payload.has_vin THEN payload.vin ELSE vin
        entries == mqtt_entries(payload.data.items)
    IN IF payload.shape = "list" \/ msg_vin \notin DOMAIN store
          \/ payload.data.kind = "other"
       THEN [data |-> store, notified |-> FALSE]
       ELSE [data |-> [store EXCEPT ![msg_vin] =
                         [@ EXCEPT
                            !.telemetry = [d \in DOMAIN @ \cup DOMAIN entries |->
                                             IF d \in DOMAIN entries THEN entries[d]
                                             ELSE @[d]],
                            !.mqtt_updated = t]],
             notified |-> TRUE]

\* A handler that hands every message to the callback, decoded or not.
handle_message_unchecked(store, msg, t) ==
    on_mqtt_message(store, msg.topic_vin, msg, t)

\* BMWMQTTStream._handle_message, lines 159-178: a payload that cannot be
\* decoded and a topic of fewer than two segments are logged and dropped;
\* else the callback is called with the topic's second segment, and what it
\* raises is logged.
handle_message(store, msg, t) ==
    IF msg.shape = "undecodable" \/ msg.parts < 2
    THEN [data |-> store, notified |-> FALSE]
    ELSE on_mqtt_message(store, msg.topic_vin, msg, t)

\* BMWMQTTStream._handle_message with the coordinator's callback: the message
\* of an open connection is handled in one call, without an await.
MqttMessage(msg) ==
    /\ sys = "running"
    /\ mqtt.exists
    /\ mqtt.task = "running"
    /\ ~mqtt.cancelled
    /\ mqtt.pc = "listening"
    /\ LET r == handle_message(data, msg, now)
       IN /\ data' = r.data
          /\ last' = [Last("mqtt", 0,
                            IF r.notified THEN "state_changed" ELSE "ignored", 0, 0)
                         EXCEPT !.msg = msg]
    /\ UNCHANGED <<sys, flow, entry, tokens, mqtt, container_id, vehicles, cycle,
                   polls, issued, call_log, access_token, http_log>>
    /\ UNCHANGED <<clockVars, caller, nreq>>

\* ---------------------------------------------------------- specifications

\* A stream whose task has connected with the stream's credential and listens.
Listening(s) ==
    [s EXCEPT !.task = "running", !.pc = "listening", !.cred = s.id_token]

\* Clock advances of the system: one tick, and the time after which a token
\* of 3600 seconds is one tick short of its refresh margin.
SysDeltas == {1, Seconds(3600 - TOKEN_REFRESH_MARGIN) - 1}

SysTick ==
    /\ \E d \in SysDeltas : Tick(d)
    /\ last' = NoLast
    /\ UNCHANGED <<call_log, access_token, http_log, caller, nreq>>
    /\ UNCHANGED sysVars

Cycles == 1..NumCycles

\* What every specification starts from, the system's part aside.
InitClients ==
    /\ now = 1
    /\ clock_steps = 0
    /\ access_token = [cl \in Clients |-> 0]
    /\ caller = [c \in Callers |-> Idle]
    /\ nreq = 0
    /\ last = NoLast

NoEntry == [tokens |-> NoTokens, vehicles |-> <<>>]

\* No coordinator has been constructed.
InitNoCoordinator ==
    /\ tokens = NoTokens
    /\ mqtt = NoStream
    /\ container_id = ""
    /\ vehicles = <<>>
    /\ data = [vin \in {} |-> VehicleData(placeholder(""))]
    /\ cycle = [k \in Cycles |-> IdleCycle]
    /\ polls = 0
    /\ issued = 0

\* The config entries the flow leaves behind (_create_entry): its tokens, with
\* or without id_token, and the identities of two vehicles.
Entries ==
    { [tokens |-> as_dict(tok),
       vehicles |-> <<Identity("V1", "BMW", "iX"), placeholder("V2")>>] :
      tok \in FlowTokens(1) }

\* Home Assistant sets up a config entry made earlier: async_setup_entry is
\* about to run.
Init ==
    /\ InitClients
    /\ call_log = [cl \in Clients |-> <<>>]
    /\ http_log = <<>>
    /\ sys = "created"
    /\ flow = NoFlow
    /\ entry \in Entries
    /\ InitNoCoordinator

CycleNext ==
    \/ \E k \in Cycles : CycleStart(k)
    \/ \E k \in Cycles, resp \in Responses, cs \in ContainerLists : ListResponse(k, resp, cs)
    \/ \E k \in Cycles, resp \in Responses, cid \in CreatedIds : CreateResponse(k, resp, cid)
    \/ \E k \in Cycles, resp \in Responses, payload \in FetchPayloads :
          FetchResponse(k, resp, payload)
    \/ \E k \in Cycles : CycleConnError(k)

RefreshNext ==
    \/ \E k \in Cycles, body \in RefreshBodies : RefreshOk(k, body)
    \/ \E k \in Cycles, exc \in {refresh_error, "ClientError"} : RefreshFails(k, exc)

SetupNext ==
    \/ Setup
    \/ StartMqtt
    \/ SetupFailed

Next ==
    \/ SetupNext
    \/ CycleNext
    \/ RefreshNext
    \/ SysTick

Spec == Init /\ [][Next]_vars

\* The integration is being added: the device flow has obtained its tokens and
\* async_step_discover is about to run; the entry it creates is then set up
\* and polled, all within the life of the flow's tokens.
InitFlow ==
    /\ InitClients
    /\ call_log = [cl \in Clients |-> <<>>]
    /\ http_log = <<>>
    /\ sys = "flow"
    /\ \E tok \in FlowTokens(1) : flow = [NoFlow EXCEPT !.pc = "discover", !.tokens = tok]
    /\ entry = NoEntry
    /\ InitNoCoordinator

FlowNext ==
    \/ DiscoverStart
    \/ \E resp \in Responses, vins \in VinLists : MappingsResponse(resp, vins)
    \/ \E resp \in Responses : BasicResponse(resp, StdBody)
    \/ FlowConnError

NextFlow ==
    \/ FlowNext
    \/ SetupNext
    \/ CycleNext

SpecFlow == InitFlow /\ [][NextFlow]_vars

\* What the mapping endpoint may list when only discovery is followed.
DiscoverVinLists == VinLists \cup { <<"V1", "V2", "V3">> }

\* Discovery alone, up to the entry it creates or the reason it aborts with.
NextDiscover ==
    \/ DiscoverStart
    \/ \E resp \in Responses, vins \in DiscoverVinLists : MappingsResponse(resp, vins)
    \/ \E resp \in Responses, body \in BasicBodies : BasicResponse(resp, body)
    \/ FlowConnError

SpecDiscover == InitFlow /\ [][NextDiscover]_vars

\* An account with fifty vehicles: the list of the mapping endpoint is as long
\* as the budget of the flow's new client, which the mapping call has already
\* drawn on.
FleetVins ==
    << "F01", "F02", "F03", "F04", "F05", "F06", "F07", "F08", "F09", "F10",
       "F11", "F12", "F13", "F14", "F15", "F16", "F17", "F18", "F19", "F20",
       "F21", "F22", "F23", "F24", "F25", "F26", "F27", "F28", "F29", "F30",
       "F31", "F32", "F33", "F34", "F35", "F36", "F37", "F38", "F39", "F40",
       "F41", "F42", "F43", "F44", "F45", "F46", "F47", "F48", "F49", "F50" >>

\* Discovery for the account of FleetVins: the mapping endpoint lists them, and
\* basicData is answered with a body for every VIN but the first, which may
\* meet any answer.
NextFleet ==
    \/ DiscoverStart
    \/ \E resp \in Responses : MappingsResponse(resp, FleetVins)
    \/ \E resp \in Responses :
          /\ flow.idx = 1 \/ classify_request(resp).exc = "ok"
          /\ BasicResponse(resp, StdBody)
    \/ FlowConnError

SpecFleet == InitFlow /\ [][NextFleet]_vars

\* Bodies of the telemetry endpoint for the polls of a running coordinator.
PollPayloads ==
    { [d \in {"d1", "d2"} |-> IF d = "d1" THEN Item(JStr("a"), "km")
                                           ELSE Item(JNum(1), "%")],
      [d \in {"d1", "d2"} |-> IF d = "d1" THEN Item(JNum(1), "km")
                                           ELSE Item(JNull, "km")] }

\* Ledgers of a coordinator that has been polling: one or two calls short of
\* the budget, or at it.
PollLedgers == { Loaded(n, 0) : n \in PreCalls..RATE_LIMIT_MAX_CALLS }

\* A coordinator that is set up and has been running: its container is known,
\* its stream exists, its token is fresh, and its earlier polls have spent most
\* of the budget without storing telemetry.
InitPoll ==
    /\ now \in {1, 2}
    /\ clock_steps = 0
    /\ caller = [c \in Callers |-> Idle]
    /\ nreq = 0
    /\ last = NoLast
    /\ \E led \in PollLedgers :
         /\ call_log = [cl \in Clients |-> IF cl = "coord" THEN led ELSE <<>>]
         /\ http_log = led
    /\ sys = "running"
    /\ flow = NoFlow
    /\ \E e \in Entries :
         /\ e.tokens.id_token # 0
         /\ entry = e
         /\ tokens = from_dict(e.tokens)
         /\ access_token = [cl \in Clients |->
                              IF cl = "coord" THEN e.tokens.access_token ELSE 0]
         /\ mqtt = Listening(Stream(e.tokens.id_token))
         /\ vehicles = e.vehicles
         /\ data = [vin \in {e.vehicles[i].vin : i \in 1..Len(e.vehicles)} |->
                      VehicleData(CHOOSE v \in {e.vehicles[i] : i \in 1..Len(e.vehicles)} :
                                    v.vin = vin)]
    /\ container_id = "c1"
    /\ cycle = [k \in Cycles |-> IdleCycle]
    /\ polls = 0
    /\ issued = 0

NextPoll ==
    \/ \E k \in Cycles : CycleStart(k)
    \/ \E k \in Cycles, resp \in Responses, payload \in PollPayloads :
          FetchResponse(k, resp, payload)
    \/ \E k \in Cycles : CycleConnError(k)
    \/ \E msg \in PushMessages : MqttMessage(msg)

SpecPoll == InitPoll /\ [][NextPoll]_vars

RefreshTick ==
    /\ Tick(1)
    /\ last' = NoLast
    /\ UNCHANGED <<call_log, access_token, http_log, caller, nreq>>
    /\ UNCHANGED sysVars

\* A coordinator that is set up and running, one tick before its token of 3600
\* seconds enters the refresh margin: the stream exists when the token set has
\* an id_token, the container is known and no call is in the ledger's window.
InitRefresh ==
    /\ clock_steps = 0
    /\ caller = [c \in Callers |-> Idle]
    /\ nreq = 0
    /\ last = NoLast
    /\ call_log = [cl \in Clients |-> <<>>]
    /\ http_log = <<>>
    /\ sys = "running"
    /\ flow = NoFlow
    /\ \E e \in Entries :
         /\ entry = e
         /\ tokens = from_dict(e.tokens)
         /\ now = expiry_timestamp(from_dict(e.tokens)) - Seconds(TOKEN_REFRESH_MARGIN) - 1
         /\ access_token = [cl \in Clients |->
                              IF cl = "coord" THEN e.tokens.access_token ELSE 0]
         /\ mqtt = IF e.tokens.id_token = 0 THEN NoStream
                   ELSE Listening(Stream(e.tokens.id_token))
         /\ vehicles = e.vehicles
         /\ data = [vin \in {e.vehicles[i].vin : i \in 1..Len(e.vehicles)} |->
                      VehicleData(CHOOSE v \in {e.vehicles[i] : i \in 1..Len(e.vehicles)} :
                                    v.vin = vin)]
    /\ container_id = "c1"
    /\ cycle = [k \in Cycles |-> IdleCycle]
    /\ polls = 0
    /\ issued = 0

NextRefresh ==
    \/ \E k \in Cycles : CycleStart(k)
    \/ RefreshNext
    \/ \E k \in Cycles, resp \in Responses, payload \in FetchPayloads :
          FetchResponse(k, resp, payload)
    \/ \E k \in Cycles : CycleConnError(k)
    \/ RefreshTick

SpecRefresh == InitRefresh /\ [][NextRefresh]_vars

\* The device code has been requested and the user has clicked Submit:
\* async_step_authorize is about to create the polling task.
InitDevice ==
    /\ InitClients
    /\ call_log = [cl \in Clients |-> <<>>]
    /\ http_log = <<>>
    /\ sys = "flow"
    /\ flow = [NoFlow EXCEPT !.pc = "authorize"]
    /\ entry = NoEntry
    /\ InitNoCoordinator

NextDevice ==
    \/ \E dc \in DeviceCodes : LoginStart(dc)
    \/ LoopTest
    \/ PollSend
    \/ \E resp \in PollAnswers, lat \in Latencies : PollAnswer(resp, lat)
    \/ PollConnError
    \/ AuthorizeDone

SpecDevice == InitDevice /\ [][NextDevice]_vars

\* The event loop runs the task whenever it can run, the sleep ends, and the
\* session's request timeout ends every poll with an answer or an error.
SpecDeviceLive == SpecDevice /\ WF_vars(NextDevice)

\* A coordinator that has just been set up: start_mqtt has created the stream
\* and its task, which has not run yet.
InitStream ==
    /\ InitClients
    /\ call_log = [cl \in Clients |-> <<>>]
    /\ http_log = <<>>
    /\ sys = "running"
    /\ flow = NoFlow
    /\ \E e \in Entries :
         /\ e.tokens.id_token # 0
         /\ entry = e
         /\ tokens = from_dict(e.tokens)
         /\ mqtt = start(Stream(e.tokens.id_token))
         /\ vehicles = e.vehicles
         /\ data = [vin \in {e.vehicles[i].vin : i \in 1..Len(e.vehicles)} |->
                      VehicleData(CHOOSE v \in {e.vehicles[i] : i \in 1..Len(e.vehicles)} :
                                    v.vin = vin)]
    /\ container_id = "c1"
    /\ cycle = [k \in Cycles |-> IdleCycle]
    /\ polls = 0
    /\ issued = 0

\* The steps of the stream's task.
TaskNext(limit) ==
    \/ TaskBegin
    \/ ConnectOk
    \/ SubscribeOk
    \/ ConnectionError(limit)
    \/ BackoffOver
    \/ CleanDisconnect
    \/ TaskCancelled

\* The reconnect loop of the task start_mqtt created, until stop_mqtt ends it.
NextBackoff ==
    \/ TaskNext(MaxFails)
    \/ StreamStop("unload")
    \/ StopReturn

SpecBackoff == InitStream /\ [][NextBackoff]_vars

\* The credentials update_token is called with.
StreamTokens == {1, 2}

\* The stream with its messages and with the calls of its holder: start,
\* stop, update_token, and stop_mqtt when the entry is unloaded.
NextStream ==
    \/ TaskNext(MaxStreamFails)
    \/ StreamStart
    \/ StreamStop("stop")
    \/ StreamStop("unload")
    \/ StopReturn
    \/ \E id \in StreamTokens : StreamUpdateToken(id)
    \/ \E msg \in StreamMessages : MqttMessage(msg)

SpecStream == InitStream /\ [][NextStream]_vars

\* The stream with callers that do not wait for one another: start() may be
\* called while a stop() is awaiting the task.
NextStartStop ==
    \/ TaskNext(MaxStreamFails)
    \/ StreamStart
    \/ ConcurrentStart
    \/ StreamStop("stop")
    \/ StopReturn

SpecStartStop == InitStream /\ [][NextStartStop]_vars

\* The task with every kind of message its connection may deliver, the ones
\* that cannot be handled included, while the token is refreshed.
NextMessages ==
    \/ TaskBegin
    \/ ConnectOk
    \/ SubscribeOk
    \/ ConnectionError(MaxStreamFails)
    \/ BackoffOver
    \/ CleanDisconnect
    \/ \E msg \in StreamMessages \cup BadMessages : MqttMessage(msg)
    \/ \E id \in StreamTokens : StreamUpdateToken(id)

SpecMessages == InitStream /\ [][NextMessages]_vars

\* A coordinator that is running without a container id (none could be
\* resolved so far), its ledger one or two calls short of the budget or at it.
InitContainer ==
    /\ now = 1
    /\ clock_steps = 0
    /\ caller = [c \in Callers |-> Idle]
    /\ nreq = 0
    /\ last = NoLast
    /\ \E led \in PollLedgers :
         /\ call_log = [cl \in Clients |-> IF cl = "coord" THEN led ELSE <<>>]
         /\ http_log = led
    /\ sys = "running"
    /\ flow = NoFlow
    /\ \E e \in Entries :
         /\ e.tokens.id_token # 0
         /\ entry = e
         /\ tokens = from_dict(e.tokens)
         /\ access_token = [cl \in Clients |->
                              IF cl = "coord" THEN e.tokens.access_token ELSE 0]
         /\ mqtt = Listening(Stream(e.tokens.id_token))
         /\ vehicles = e.vehicles
         /\ data = [vin \in {e.vehicles[i].vin : i \in 1..Len(e.vehicles)} |->
                      VehicleData(CHOOSE v \in {e.vehicles[i] : i \in 1..Len(e.vehicles)} :
                                    v.vin = vin)]
    /\ container_id = ""
    /\ cycle = [k \in Cycles |-> IdleCycle]
    /\ polls = 0
    /\ issued = 0

NextContainer ==
    \/ \E k \in Cycles : CycleStart(k)
    \/ \E k \in Cycles, resp \in Responses, cs \in ContainerLists : ListResponse(k, resp, cs)
    \/ \E k \in Cycles, resp \in Responses, cid \in CreatedIds : CreateResponse(k, resp, cid)
    \/ \E k \in Cycles, resp \in Responses, payload \in PollPayloads :
          FetchResponse(k, resp, payload)
    \/ \E k \in Cycles : CycleConnError(k)

SpecContainer == InitContainer /\ [][NextContainer]_vars

\* The body the telemetry endpoint answers with while the stream is followed.
OnePayload == CHOOSE p \in PollPayloads : p["d2"].value.t # "null"

\* The stream's task alongside the poll cycles of the coordinator: the task
\* connects, listens, loses its connection and reconnects while a cycle polls.
NextStreamPoll ==
    \/ TaskBegin
    \/ ConnectOk
    \/ SubscribeOk
    \/ ConnectionError(MaxStreamFails)
    \/ BackoffOver
    \/ CleanDisconnect
    \/ \E msg \in StreamMessages : MqttMessage(msg)
    \/ CycleStart(1)
    \/ \E resp \in Responses : FetchResponse(1, resp, OnePayload)
    \/ CycleConnError(1)

\* The backoff sleep ends and the event loop runs the task.
SpecStreamPoll ==
    InitStream /\ [][NextStreamPoll]_vars /\ WF_vars(BackoffOver) /\ WF_vars(TaskBegin)

\* The REST client alone, used by NumCallers coroutines: as constructed (empty
\* ledger), or after PreCalls calls.
InitApi ==
    /\ InitClients
    /\ \E led \in ApiLedgers :
         /\ call_log = [cl \in Clients |-> IF cl = "coord" THEN led ELSE <<>>]
         /\ http_log = led
    /\ sys = "none"
    /\ flow = NoFlow
    /\ entry = NoEntry
    /\ InitNoCoordinator

NextApi ==
    \/ \E c \in Callers, op \in Ops : ApiStart(c, op)
    \/ \E c \in Callers, resp \in Responses : ApiResponse(c, resp)
    \/ \E c \in Callers : ApiConnError(c)
    \/ ApiRemainingCalls
    \/ ApiTick

SpecApi == InitApi /\ [][NextApi]_vars

\* ================================================================ claims

\* The entries of a ledger that lie inside the trailing window at time t.
InWindow(log, t) ==
    SelectSeq(log, LAMBDA x : x >= t - Seconds(RATE_LIMIT_WINDOW))

CoordLog == call_log["coord"]

\* A step in which a coroutine enters _request or create_container.
RequestMade == nreq' = nreq + 1

\* A step in which the response of a suspended call arrives at coroutine c.
Responded(c) ==
    /\ caller[c].pc = "await"
    /\ caller'[c].pc = "idle"
    /\ last'.exc # "ClientError"

\* C1: for one REST client, the HTTP calls issued within the trailing
\* 86400 seconds are never more than 50, whatever the interleaving of requests.
C1_AtMost50Issued ==
    Len(InWindow(http_log, now)) <= RATE_LIMIT_MAX_CALLS

\* C3: remaining_calls returns max(0, 50 - N), N the calls recorded within the
\* trailing 86400 seconds, and leaves in the ledger exactly the entries that are
\* inside the window: none older is kept, none inside is removed.
C3_RemainingCalls ==
    [][ last'.op = "remaining_calls" =>
          /\ last'.ret = Max(0, RATE_LIMIT_MAX_CALLS - Len(InWindow(CoordLog, now)))
          /\ call_log'["coord"] = InWindow(CoordLog, now)
          /\ \A i \in 1..Len(call_log'["coord"]) :
                now - call_log'["coord"][i] <= Seconds(RATE_LIMIT_WINDOW) ]_vars

C3_Witness ==
    /\ last.op = "remaining_calls"
    /\ last.ret = 2
    /\ Len(CoordLog) = RATE_LIMIT_MAX_CALLS - 2
    /\ Head(CoordLog) = now - Seconds(RATE_LIMIT_WINDOW)
    /\ Len(http_log) = RATE_LIMIT_MAX_CALLS

\* What a request made with the budget exhausted does, the reset ETA aside:
\* RateLimitExceeded, no HTTP call, nothing in flight, no entry added.
Rejected ==
    /\ last'.exc = "RateLimitExceeded"
    /\ http_log' = http_log
    /\ caller' = caller
    /\ call_log'["coord"] = InWindow(CoordLog, now)

Exhausted == Len(InWindow(CoordLog, now)) >= RATE_LIMIT_MAX_CALLS

\* oldest_timestamp + 86400 - now, in ticks.
EtaTicks == Head(InWindow(CoordLog, now)) + Seconds(RATE_LIMIT_WINDOW) - now

\* C4 as stated: a request made while 50 calls are recorded inside the window
\* fails with RateLimitExceeded before any HTTP call, consumes no budget, and
\* its reset ETA equals oldest_timestamp + 86400 - now.
C4_EtaExact ==
    [][ (RequestMade /\ Exhausted) =>
          /\ Rejected
          /\ Seconds(last'.ret) = EtaTicks ]_vars

\* C4 amended: the reset ETA is oldest_timestamp + 86400 - now cut to whole
\* seconds, and lies between 0 and 86400.
C4_Rejected ==
    [][ (RequestMade /\ Exhausted) =>
          /\ Rejected
          /\ Seconds(last'.ret) <= EtaTicks
          /\ EtaTicks < Seconds(last'.ret + 1)
          /\ 0 <= last'.ret
          /\ last'.ret <= RATE_LIMIT_WINDOW ]_vars

C4_Witness ==
    /\ last.exc = "RateLimitExceeded"
    /\ Len(CoordLog) = RATE_LIMIT_MAX_CALLS
    /\ Head(CoordLog) < now
    /\ last.ret > 0
    /\ last.ret < RATE_LIMIT_WINDOW

\* The entries of the ledger that have left the window.
Aged == Len(CoordLog) - Len(InWindow(CoordLog, now))

\* C5: with 50 calls recorded of which k are more than 86400 seconds old,
\* remaining_calls is exactly k and, when k >= 1, the next request is admitted.
C5_Replenished ==
    [][ Len(CoordLog) = RATE_LIMIT_MAX_CALLS =>
          /\ last'.op = "remaining_calls" => last'.ret = Aged
          /\ (RequestMade /\ Aged >= 1) =>
                /\ last'.exc = "sent"
                /\ http_log' = Append(http_log, now)
                /\ Len(call_log'["coord"]) = RATE_LIMIT_MAX_CALLS - Aged ]_vars

C5_Witness ==
    /\ last.op = "remaining_calls"
    /\ last.ret = 1
    /\ Len(http_log) = RATE_LIMIT_MAX_CALLS
    /\ http_log[1] < now - Seconds(RATE_LIMIT_WINDOW)
    /\ http_log[2] >= now - Seconds(RATE_LIMIT_WINDOW)
    /\ CoordLog = Tail(http_log)

\* C6: every call that completes with an HTTP response adds exactly one
\* timestamp to the ledger, whatever the status and on both paths, and
\* remaining_calls drops by one.
C6_OnePerResponse ==
    [][ \A c \in Callers : Responded(c) =>
          /\ Len(call_log'["coord"]) = Len(InWindow(CoordLog, now)) + 1
             \/ (caller[c].op = "create_container"
                 /\ Len(call_log'["coord"]) = Len(CoordLog) + 1)
          /\ call_log'["coord"][Len(call_log'["coord"])] = now
          /\ remaining_calls(call_log'["coord"], now)
                = remaining_calls(CoordLog, now) - 1 ]_vars

\* ------------------------------------------------- claims about the system

Waits == {"list_wait", "create_wait", "fetch_wait"}

Constructed == sys \in {"first_refresh", "running"}

\* C2 (as the specification states it): the calls of vehicle discovery and the
\* calls of the poll cycles share one budget: once the coordinator exists and
\* none of its calls is in flight, every call issued to the REST API inside the
\* trailing window, discovery's included, is in the ledger its cycles check.
C2_OneBudget ==
    (Constructed /\ \A k \in Cycles : cycle[k].pc \notin Waits)
        => Len(InWindow(http_log, now)) <= Len(InWindow(CoordLog, now))

\* A poll cycle is entered by this step.
PollStarted(k) ==
    /\ polls' = polls + 1
    /\ last'.op = "poll"
    /\ last'.who = k

\* The time from which a token obtained at token_time is refreshed.
RefreshFrom(tok) == tok.token_time + Seconds(tok.expires_in - TOKEN_REFRESH_MARGIN)

\* C7: at the start of a poll cycle a refresh is attempted if and only if
\* now >= obtained_at + expires_in - 300, so for a token of 3600 seconds from
\* 3300 seconds after it was obtained and not before; a cycle that attempts
\* none goes on without waiting for the token endpoint.
C7_RefreshIffDue ==
    [][\A k \in Cycles :
         PollStarted(k) =>
            /\ (cycle'[k].pc = "refresh_wait") <=> (now >= RefreshFrom(tokens))
            /\ (last'.exc = "refresh") <=> (now >= RefreshFrom(tokens))
            /\ cycle'[k].pc = "refresh_wait" => cycle'[k].refresh_arg = tokens.refresh_token
      ]_vars

\* A cycle attempts the refresh at exactly 3300 seconds after a token of 3600
\* seconds was obtained.
C7_Witness ==
    /\ last.op = "poll"
    /\ last.exc = "refresh"
    /\ cycle[last.who].pc = "refresh_wait"
    /\ tokens.expires_in = 3600
    /\ now = tokens.token_time + Seconds(3300)

\* The four holders of the credentials agree.
Agree ==
    /\ access_token["coord"] = tokens.access_token
    /\ mqtt.exists => mqtt.id_token = tokens.id_token
    /\ entry.tokens = as_dict(tokens)

\* A token refresh completes successfully in this step.
Refreshed == issued' = issued + 1

\* C8: when a successful refresh completes, the coordinator's TokenSet is the
\* one just issued, and after every step of a constructed coordinator the REST
\* client's access token, the stream's id_token (when there is a stream) and
\* the persisted tokens agree with the coordinator's TokenSet.
C8_TokensAgree ==
    [][/\ Constructed' => Agree'
       /\ Refreshed =>
            /\ last'.op = "refresh" /\ last'.exc = "ok"
            /\ tokens'.access_token = issued' + 1
            /\ tokens'.token_time = now
            /\ tokens' # tokens
      ]_vars

\* A refresh has completed while a stream exists, and all holders carry the
\* new credentials.
C8_Witness ==
    /\ last.op = "refresh"
    /\ last.exc = "ok"
    /\ mqtt.exists
    /\ issued >= 1
    /\ tokens.access_token = issued + 1
    /\ access_token["coord"] = issued + 1
    /\ mqtt.id_token = tokens.id_token

\* Cycle k's due refresh fails with TokenRefreshFailed in this step.
RefreshFailed(k) ==
    /\ cycle[k].pc = "refresh_wait"
    /\ cycle'[k].pc # "refresh_wait"
    /\ last'.op = "refresh"
    /\ last'.who = k
    /\ last'.exc = "TokenRefreshFailed"

\* C9: a due refresh that fails with TokenRefreshFailed ends the poll cycle with
\* ConfigEntryAuthFailed; the cycle attempts no second refresh, has issued and
\* issues no REST call, and the TokenSet, the client's access token, the
\* stream's id_token and the persisted tokens are unchanged.
C9_RefreshFailureFatal ==
    [][\A k \in Cycles :
         RefreshFailed(k) =>
            /\ cycle'[k].pc = "idle"
            /\ cycle'[k].result = "ConfigEntryAuthFailed"
            /\ cycle[k].ncalls = 0
            /\ cycle'[k].ncalls = 0
            /\ http_log' = http_log
            /\ call_log' = call_log
            /\ issued' = issued
            /\ UNCHANGED <<tokens, access_token, mqtt, entry>>
      ]_vars

\* A cycle has ended with the fatal condition after a failed refresh, with a
\* stream in place.
C9_Witness ==
    /\ last.op = "refresh"
    /\ last.exc = "TokenRefreshFailed"
    /\ cycle[last.who].pc = "idle"
    /\ cycle[last.who].result = "ConfigEntryAuthFailed"
    /\ mqtt.exists

\* A REST call of cycle k is answered with 401 in this step.
Answered401(k) ==
    /\ cycle[k].pc \in Waits
    /\ call_log'["coord"] # call_log["coord"]
    /\ last'.who = k
    /\ last'.op \in {"get_containers", "create_container", "get_telematic_data"}
    /\ last'.status = 401

\* C10 (as the specification states it): a 401 answer to any REST call of a
\* poll cycle, container listing and creation included, ends the cycle with
\* ConfigEntryAuthFailed.
C10_Every401Fatal ==
    [][\A k \in Cycles :
         Answered401(k) =>
            /\ cycle'[k].pc = "idle"
            /\ cycle'[k].result = "ConfigEntryAuthFailed"
      ]_vars

\* ------------------------------------- claims about a running coordinator

\* Cycle k takes a step of its vehicle loop: it is entered with a valid token
\* and a known container, or the answer to its suspended fetch arrives (or the
\* connection fails).
LoopStep(k) ==
    \/ PollStarted(k) /\ last'.exc = "valid" /\ container_id # ""
    \/ /\ cycle[k].pc = "fetch_wait"
       /\ cycle'[k] # cycle[k]
       /\ last'.who = k
       /\ last'.op \in {"get_telematic_data", "rest"}

\* The vehicle whose fetch the loop turns to in that step.
NextVehicle(k) == IF cycle[k].pc = "fetch_wait" THEN cycle[k].idx + 1 ELSE 1

\* The vehicle whose fetch was suspended before the step.
FetchedVin(k) == vehicles[cycle[k].idx].vin

\* The budget the coordinator's client has left once the step has recorded.
BudgetLeft == RATE_LIMIT_MAX_CALLS - Len(InWindow(call_log'["coord"], now))

\* C11: when the fetch for the k-th vehicle is refused with RateLimitExceeded,
\* no call is issued for it or for a later vehicle, the cycle returns normally,
\* the data of every vehicle other than the one just answered is untouched and
\* the answered one keeps the merge of this step; the cycle keeps no position,
\* and every cycle that is entered turns to the first vehicle.
C11_TruncatedByBudget ==
    [][\A k \in Cycles :
         /\ (LoopStep(k) /\ last'.status # 401 /\ NextVehicle(k) <= Len(vehicles)
               /\ BudgetLeft <= 0) =>
               /\ cycle'[k] = [IdleCycle EXCEPT !.result = "ok"]
               /\ Len(http_log') <= Len(http_log)
               /\ \A i \in 1..Len(vehicles) :
                     (cycle[k].pc # "fetch_wait" \/ i # cycle[k].idx)
                        => data'[vehicles[i].vin] = data[vehicles[i].vin]
               /\ (cycle[k].pc = "fetch_wait" /\ last'.exc \in {"ok", "None"})
                     => data'[FetchedVin(k)].rest_updated = now
         /\ (LoopStep(k) /\ cycle[k].pc # "fetch_wait" /\ BudgetLeft > 0) =>
               /\ cycle'[k].pc = "fetch_wait"
               /\ cycle'[k].idx = 1
               /\ http_log' = Append(http_log, now)
      ]_vars

\* The first vehicle's fetch was answered and merged with the 50th call, the
\* second vehicle's fetch was refused, and the cycle has returned normally.
C11_Witness ==
    /\ last.op = "get_telematic_data"
    /\ last.exc = "ok"
    /\ cycle[last.who] = [IdleCycle EXCEPT !.result = "ok"]
    /\ polls = 1
    /\ Len(InWindow(CoordLog, now)) = RATE_LIMIT_MAX_CALLS
    /\ data["V1"].rest_updated = now
    /\ DOMAIN data["V1"].telemetry = {"d1", "d2"}
    /\ data["V2"].rest_updated = Null

\* C12: when a vehicle's fetch is answered with a non-2xx status other than
\* 401 (429 included) or fails with an unexpected exception, the store is left
\* as it was, the cycle does not fail, and the loop goes on: the next
\* vehicle's fetch is issued while budget is left, and after the last vehicle
\* the cycle returns normally.
C12_VehicleErrorAbsorbed ==
    [][\A k \in Cycles :
         (/\ cycle[k].pc = "fetch_wait"
          /\ cycle'[k] # cycle[k]
          /\ last'.who = k
          /\ \/ last'.op = "get_telematic_data" /\ last'.status \notin {200, 401}
             \/ last'.op = "rest" /\ last'.exc = "ClientError") =>
            /\ data' = data
            /\ cycle'[k].result \notin {"ConfigEntryAuthFailed", "UpdateFailed"}
            /\ (cycle[k].idx < Len(vehicles) /\ BudgetLeft > 0) =>
                  /\ cycle'[k].pc = "fetch_wait"
                  /\ cycle'[k].idx = cycle[k].idx + 1
                  /\ http_log'[Len(http_log')] = now
            /\ cycle[k].idx = Len(vehicles) =>
                  cycle'[k] = [IdleCycle EXCEPT !.result = "ok"]
      ]_vars

\* In one cycle the first vehicle's fetch failed and left its state untouched,
\* and the second vehicle was fetched and merged.
C12_Witness ==
    /\ polls = 1
    /\ last.op = "get_telematic_data"
    /\ last.exc = "ok"
    /\ cycle[last.who] = [IdleCycle EXCEPT !.result = "ok"]
    /\ data["V1"] = VehicleData(Identity("V1", "BMW", "iX"))
    /\ data["V2"].rest_updated = now
    /\ DOMAIN data["V2"].telemetry = {"d1", "d2"}
    /\ Len(CoordLog) = PreCalls + 2

\* The descriptors of a batch that carry a value.
Carried(items) == {d \in DOMAIN items : items[d].value.t # "null"}

\* The entry stored for descriptor d of a batch.
Stored(d, item) ==
    [name |-> d, value |-> str(item.value), unit |-> item.unit,
     timestamp |-> item.timestamp]

\* new is old overwritten by every carried descriptor of the batch, whatever
\* the timestamps, and nothing else.
LastWriterWins(old, new, items) ==
    /\ DOMAIN new = DOMAIN old \cup Carried(items)
    /\ \A d \in DOMAIN new :
          new[d] = IF d \in Carried(items) THEN Stored(d, items[d]) ELSE old[d]

\* The vehicle a stream message is for.
MsgVin(m) == IF m.has_vin THEN m.vin ELSE m.topic_vin

\* A stream message for a vehicle of the store, with a "data" object or none.
Accepted(m) ==
    m.shape = "object" /\ MsgVin(m) \in DOMAIN data /\ m.data.kind # "other"

\* The step handles the stream message last'.msg.
PushStep ==
    /\ last'.op = "mqtt"
    /\ last'.msg \in PushMessages
    /\ polls' = polls
    /\ call_log' = call_log

\* The step merges the 2xx answer to cycle k's suspended fetch.
RestStep(k) ==
    /\ cycle[k].pc = "fetch_wait"
    /\ cycle'[k] # cycle[k]
    /\ last'.who = k
    /\ last'.op = "get_telematic_data"
    /\ last'.exc \in {"ok", "None"}

\* The bodies a 2xx answer may have merged.
MergedBodies == PollPayloads \cup {NoData}

\* C13: every merge is last writer wins: after a stream push the vehicle's
\* entries are the previous ones overwritten by every descriptor the message
\* carries with a value, older timestamps included, with mqtt_updated set; after
\* a REST merge they are the previous ones overwritten by the batch, with
\* rest_updated set; descriptors not carried keep their entry.
C13_LastWriterWins ==
    [][/\ (PushStep /\ Accepted(last'.msg)) =>
            LET v == MsgVin(last'.msg)
            IN /\ LastWriterWins(data[v].telemetry, data'[v].telemetry,
                                 last'.msg.data.items)
               /\ data'[v].mqtt_updated = now
               /\ data'[v].rest_updated = data[v].rest_updated
       /\ \A k \in Cycles : RestStep(k) =>
            LET v == FetchedVin(k)
            IN /\ \E body \in MergedBodies :
                     LastWriterWins(data[v].telemetry, data'[v].telemetry, body)
               /\ data'[v].rest_updated = now
               /\ data'[v].mqtt_updated = data[v].mqtt_updated
      ]_vars

\* A REST merge of d1 and d2 was followed by a push of d1 with an older
\* timestamp: both descriptors are stored, d1 with the stream's value.
C13_Witness ==
    /\ last.op = "mqtt"
    /\ DOMAIN data["V1"].telemetry = {"d1", "d2"}
    /\ data["V1"].telemetry["d1"].value = "b"
    /\ data["V1"].telemetry["d1"].timestamp = "t0"
    /\ data["V1"].telemetry["d2"].value = "1"
    /\ data["V1"].telemetry["d2"].timestamp = "ts"
    /\ data["V1"].rest_updated # Null
    /\ data["V1"].mqtt_updated = now

\* The descriptor-to-entry mappings of a store.
Tel(store) == [v \in DOMAIN store |-> store[v].telemetry]

\* C14: merging is idempotent: in every reachable store, handling the same
\* stream message a second time, or merging the same REST batch a second time,
\* later, gives the descriptor-to-entry mappings of handling it once; only the
\* source's last-update time may differ.
C14_MergeIdempotent ==
    /\ \A m \in PushMessages :
          LET once == on_mqtt_message(data, m.topic_vin, m, now).data
              twice == on_mqtt_message(once, m.topic_vin, m, now + 1).data
          IN /\ Tel(twice) = Tel(once)
             /\ \A v \in DOMAIN data :
                   /\ twice[v].rest_updated = once[v].rest_updated
                   /\ twice[v].basic = once[v].basic
    /\ \A v \in DOMAIN data, body \in MergedBodies :
          LET once == merge_rest_data(data, v, telematic_entries(body), now)
              twice == merge_rest_data(once, v, telematic_entries(body), now + 1)
          IN /\ Tel(twice) = Tel(once)
             /\ \A u \in DOMAIN data :
                   /\ twice[u].mqtt_updated = once[u].mqtt_updated
                   /\ twice[u].basic = once[u].basic

\* A push has overwritten one of two stored descriptors, and handling the same
\* message again leaves the store as it is.
C14_Witness ==
    /\ last.op = "mqtt"
    /\ last.exc = "state_changed"
    /\ Carried(last.msg.data.items) = {"d1"}
    /\ DOMAIN data[MsgVin(last.msg)].telemetry = {"d1", "d2"}
    /\ on_mqtt_message(data, last.msg.topic_vin, last.msg, now).data = data

\* C15: a stream message for a known vehicle is merged, sets the vehicle's
\* mqtt_updated and calls async_set_updated_data in the step that handles it,
\* and that step neither waits for nor moves any poll cycle.
C15_PushImmediate ==
    [][(PushStep /\ Accepted(last'.msg)) =>
          LET m == last'.msg
              v == MsgVin(m)
          IN /\ last'.exc = "state_changed"
             /\ data'[v].mqtt_updated = now
             /\ \A d \in Carried(m.data.items) :
                   /\ d \in DOMAIN data'[v].telemetry
                   /\ data'[v].telemetry[d] = Stored(d, m.data.items[d])
             /\ cycle' = cycle
             /\ http_log' = http_log
      ]_vars

\* A push was merged and notified while a poll cycle is suspended in the fetch
\* for the same vehicle.
C15_Witness ==
    /\ last.op = "mqtt"
    /\ last.exc = "state_changed"
    /\ \E k \in Cycles :
          /\ cycle[k].pc = "fetch_wait"
          /\ vehicles[cycle[k].idx].vin = MsgVin(last.msg)
    /\ data[MsgVin(last.msg)].mqtt_updated = now
    /\ data[MsgVin(last.msg)].rest_updated = Null
    /\ "d1" \in DOMAIN data[MsgVin(last.msg)].telemetry

\* C16: the store changes one whole batch of one source at a time: a step
\* that changes it touches one vehicle and is either the handling of one stream
\* message, applied completely and with no cycle moving, or the merge of one
\* REST batch, applied completely and with nothing of the stream's written.
C16_Serialized ==
    [][data' # data =>
         \E v \in DOMAIN data :
            /\ \A u \in DOMAIN data \ {v} : data'[u] = data[u]
            /\ \/ /\ PushStep
                  /\ v = MsgVin(last'.msg)
                  /\ cycle' = cycle
                  /\ data'[v].rest_updated = data[v].rest_updated
                  /\ LastWriterWins(data[v].telemetry, data'[v].telemetry,
                                    last'.msg.data.items)
               \/ \E k \in Cycles :
                     /\ RestStep(k)
                     /\ v = FetchedVin(k)
                     /\ data'[v].mqtt_updated = data[v].mqtt_updated
                     /\ \E body \in MergedBodies :
                           LastWriterWins(data[v].telemetry, data'[v].telemetry, body)
      ]_vars

\* A whole REST batch was merged over entries a push had written while the
\* fetch was suspended.
C16_Witness ==
    /\ last.op = "get_telematic_data"
    /\ last.exc = "ok"
    /\ data["V1"].mqtt_updated # Null
    /\ data["V1"].rest_updated = now
    /\ DOMAIN data["V1"].telemetry = {"d1", "d2"}
    /\ data["V1"].telemetry["d1"].value = "a"
    /\ data["V1"].telemetry["d2"].value = "1"
    /\ data["V1"].telemetry["d2"].timestamp = "ts"

\* ------------------------------------------ claims about refresh exclusion

\* The cycles whose refresh request is in flight.
Refreshing == {k \in Cycles : cycle[k].pc = "refresh_wait"}

\* C17 (as the specification states it): at most one token refresh request is
\* in flight at any time, so no refresh token is submitted by two requests.
C17_OneRefreshInFlight ==
    /\ Cardinality(Refreshing) <= 1
    /\ \A j, k \in Refreshing :
          j # k => cycle[j].refresh_arg # cycle[k].refresh_arg


\* ------------------------------------------------------ device-poll claims

\* The step in which the answer to a device poll is received.
Answered == flow.pc = "poll_wait" /\ flow'.pc # "poll_wait" /\ flow'.resp # NoPoll

\* The device-poll task is over.
LoginOver ==
    flow.pc \in {"login_done", "login_failed", "discover", "authorization_failed"}

\* C18: whatever run of authorization_pending answers came before, a 200
\* answer carrying the tokens and received before the deadline ends the
\* device-poll loop successfully, holding exactly the tokens of that answer
\* stamped with the time the answer was received; once the task is over no
\* further poll is sent.
C18_PendingThenSuccess ==
    /\ [][(Answered /\ flow'.resp.status = 200 /\ flow'.resp.complete
                    /\ now' < flow.deadline)
          => /\ flow'.pc = "login_done"
             /\ flow'.error = "none"
             /\ flow'.tokens.access_token = 1
             /\ flow'.tokens.refresh_token = 1
             /\ flow'.tokens.id_token = (IF flow'.resp.full THEN 1 ELSE 0)
             /\ flow'.tokens.token_time = now'
             /\ flow'.npolls = flow.npolls]_vars
    /\ [][LoginOver => LoginOver' /\ flow'.npolls = flow.npolls
                                   /\ flow'.tokens = flow.tokens]_vars

\* Three polls at the first interval, none of them slowed down, and the third
\* answered with the tokens before the deadline.
C18_Witness ==
    /\ flow.pc = "login_done"
    /\ flow.npolls >= 3
    /\ flow.interval = 5
    /\ flow.resp.status = 200
    /\ flow.tokens.token_time = now
    /\ now < flow.deadline

C20_ExpiryIsDeviceCodeExpired ==
    /\ [][(Answered /\ (flow'.resp.status = 401
                        \/ flow'.resp.error = "expired_token"))
          => /\ flow'.pc = "login_failed"
             /\ flow'.error = "DeviceCodeExpired"]_vars
    /\ [][LoginOver => flow'.npolls = flow.npolls]_vars


\* C21: the device-poll task always ends, whatever the answers: with the
\* tokens, with an exception of a poll, or with DeviceCodeExpired at the first
\* loop test at or after the deadline of the device code; a sleep is only
\* begun before that deadline.
C21_LoopTerminates ==
    /\ <>LoginOver
    /\ [][(flow.pc = "loop" /\ now >= flow.deadline /\ flow' # flow)
          => /\ flow'.pc = "login_failed"
             /\ flow'.error = "DeviceCodeExpired"]_vars
    /\ [][(flow.pc # "sleeping" /\ flow'.pc = "sleeping")
          => now < flow.deadline]_vars

\* The deadline ended a loop whose polls were only ever answered with
\* authorization_pending or slow_down.
C21_Witness ==
    /\ flow.pc = "login_failed"
    /\ flow.error = "DeviceCodeExpired"
    /\ flow.resp.status \in {400, 403}
    /\ flow.npolls >= 2
    /\ now >= flow.deadline


\* ------------------------------------------------------- discovery claims

\* C22: when discovery completes, it returns one identity per VIN of the
\* mapping list, in the list's order and with the list's VIN; a VIN whose
\* basicData call raised an APIError has the placeholder (BMW, Unknown), any
\* other VIN the brand and model of its body; an APIError of a basicData call
\* never aborts the discovery.
C22_OnePerVin ==
    /\ [](flow.pc = "done" =>
            /\ Len(flow.found) = Len(flow.vins)
            /\ Len(flow.answers) = Len(flow.vins)
            /\ entry.vehicles = flow.found
            /\ \A i \in 1..Len(flow.vins) :
                 /\ flow.found[i].vin = flow.vins[i]
                 /\ flow.answers[i].failed =>
                      /\ flow.found[i].brand = "BMW"
                      /\ flow.found[i].model = "Unknown"
                 /\ ~flow.answers[i].failed =>
                      /\ flow.found[i].brand = from_api(flow.answers[i].body).brand
                      /\ flow.found[i].model = from_api(flow.answers[i].body).model)
    /\ [][(flow.pc = "basic_wait" /\ Len(flow'.answers) > Len(flow.answers)
             /\ flow'.answers[Len(flow'.answers)].failed)
          => flow'.pc \in {"basic_wait", "done"}]_vars

\* Three VINs, the second of which failed, and the third of which answered
\* with the VIN of another vehicle.
C22_Witness ==
    /\ flow.pc = "done"
    /\ flow.vins = <<"V1", "V2", "V3">>
    /\ ~flow.answers[1].failed
    /\ flow.answers[2].failed
    /\ ~flow.answers[3].failed
    /\ flow.answers[3].body.has_vin
    /\ flow.found[2] = Identity("V2", "BMW", "Unknown")
    /\ flow.found[3] = Identity("V3", "MINI", "Cooper")


\* ----------------------------------------------------------- stream claims

\* The step in which the backoff sleep ends and the task reconnects.
Reconnects == mqtt.pc = "backoff" /\ last'.op = "stream" /\ last'.exc = "reconnect"

StartCall == last'.op = "start"
StopCall == last'.op = "stop" /\ mqtt.stopping = "no" /\ mqtt'.exists

\* The last step was the return of a call of stop().
StopReturned == last.op = "stop" /\ last.exc = "returned"

\* C24: start() on a stream whose task is running changes nothing; stop() on
\* a stream whose task is not running returns at once, leaving only the stop
\* event set; a second stop() right after a stop() has returned changes
\* nothing; and start() after a completed stop() creates a task again, whose
\* loop goes on to connect.
C24_StartStopIdempotent ==
    /\ [][(StartCall /\ mqtt.task = "running") => mqtt' = mqtt]_vars
    /\ [][(StopCall /\ mqtt.task # "running")
          => /\ last'.exc = "returned"
             /\ mqtt' = [mqtt EXCEPT !.stop_event = TRUE, !.task = "none"]]_vars
    /\ [][(StopCall /\ StopReturned) => mqtt' = mqtt /\ last' = last]_vars
    /\ [][(StartCall /\ mqtt.task = "none")
          => /\ mqtt'.task = "running"
             /\ mqtt'.pc = "loop"
             /\ ~mqtt'.stop_event
             /\ ~mqtt'.cancelled]_vars
    /\ [][(mqtt.pc = "loop" /\ ~mqtt.cancelled /\ mqtt'.pc # "loop")
          => mqtt'.pc = "connecting" /\ mqtt'.task = "running"]_vars

\* The task of a stream that was connected and received a message, was
\* stopped and was started again, is at its next connection attempt.
C24_Witness ==
    /\ mqtt.task = "running"
    /\ mqtt.pc = "connecting"
    /\ mqtt.stopping = "no"
    /\ ~mqtt.stop_event
    /\ mqtt.nfail = 0
    /\ mqtt.backoff = MQTT_RECONNECT_MIN
    /\ data["V1"].mqtt_updated # Null
    /\ last.op = "stream"
    /\ last.exc = "connect"


\* The step begins a connection attempt.
Attempt == mqtt'.pc = "connecting" /\ mqtt.pc # "connecting"

\* C25: when stop() returns (and stop_mqtt with it) the task is over, whatever
\* it was doing when stop() was called; and a task that is over or whose
\* cancellation is requested handles no message and begins no connection
\* attempt.
C25_StoppedOnReturn ==
    /\ [](StopReturned => (~mqtt.exists \/ mqtt.task = "none"))
    /\ [][(mqtt.stopping # "no" /\ last'.op = "stop")
          => mqtt.task = "done" /\ mqtt'.task = "none" /\ mqtt'.pc = "none"]_vars
    /\ [][(mqtt.task # "running" \/ mqtt.cancelled)
          => /\ last'.op # "mqtt"
             /\ data' = data
             /\ ~Attempt
             /\ mqtt'.cred = (IF mqtt'.exists THEN mqtt.cred ELSE 0)]_vars

\* stop() has returned after cancelling a task that was asleep in a backoff
\* that had not run out, on a stream that had merged a message before.
C25_Witness ==
    /\ StopReturned
    /\ mqtt.exists
    /\ mqtt.task = "none"
    /\ mqtt.stop_event
    /\ mqtt.nfail > 0
    /\ mqtt.wake > now
    /\ data["V1"].mqtt_updated # Null


\* The descriptors of message m that carry a value.
Valued(m) == { d \in DOMAIN m.data.items : m.data.items[d].value.t # "null" }

\* C26 (as the specification states it): a stream message in either wire
\* shape, the nested object or the flat list of entries, is merged: every
\* descriptor it carries with a non-null value is, after the step that handles
\* it, in the telemetry of the vehicle it reports on, with that value.
C26_BothShapesMerged ==
    [][(last'.op = "mqtt" /\ last'.msg.shape \in {"object", "list"}
          /\ last'.msg.data.kind = "dict"
          /\ MsgVin(last'.msg) \in DOMAIN data)
       => \A d \in Valued(last'.msg) :
            /\ d \in DOMAIN data'[MsgVin(last'.msg)].telemetry
            /\ data'[MsgVin(last'.msg)].telemetry[d].value
                 = str(last'.msg.data.items[d].value)]_vars


\* The step is a failure of the stream's connection.
StreamFails == last'.op = "stream" /\ last'.exc = "failed"

\* C27: a connection failure never ends the stream's task and changes nothing
\* but the stream (no poll cycle, no vehicle's state, no token, nothing of the
\* entry or of the setup); and unless a stop is requested, the backoff it
\* leads to is followed by the next connection attempt.
C27_ErrorsLocalAndRetried ==
    /\ [][StreamFails
          => /\ mqtt'.task = "running"
             /\ mqtt'.pc = "backoff"
             /\ UNCHANGED <<data, cycle, polls, sys, tokens, entry, call_log,
                            access_token, http_log>>]_vars
    /\ [][(mqtt.pc = "backoff" /\ mqtt'.pc # "backoff")
          => \/ mqtt'.pc = "connecting" /\ mqtt'.task = "running"
             \/ mqtt.stop_event]_vars
    /\ [](mqtt.pc = "backoff"
            => <>(mqtt.pc = "connecting" \/ mqtt.stop_event \/ ~mqtt.exists))

\* The second connection attempt after a failure has failed as well, and the
\* task is asleep before its third, with a vehicle's state as a push left it
\* and a poll cycle waiting for its telemetry.
C27_Witness ==
    /\ mqtt.task = "running"
    /\ mqtt.pc = "backoff"
    /\ ~mqtt.stop_event
    /\ mqtt.fails = 2
    /\ data["V1"].mqtt_updated # Null
    /\ cycle[1].pc = "fetch_wait"
    /\ sys = "running"


\* C28: update_token changes the stored id_token and nothing else of the
\* stream (not the task, its position, the open connection and its
\* credential, or the backoff delay); nothing else changes the stored
\* id_token; a connection attempt is made with the id_token stored when it
\* begins, and keeps it for as long as it lasts.
C28_UpdateTokenFrame ==
    /\ [][last'.op = "update_token"
          => mqtt' = [mqtt EXCEPT !.id_token = last'.ret]]_vars
    /\ [][(last'.op # "update_token" /\ mqtt'.exists)
          => mqtt'.id_token = mqtt.id_token]_vars
    /\ [][Attempt => mqtt'.cred = mqtt.id_token]_vars
    /\ [][(~Attempt /\ mqtt'.exists) => mqtt'.cred = mqtt.cred]_vars

\* A connection opened after update_token(2) is still open with that
\* credential when update_token(1) has just been called.
C28_Witness ==
    /\ last.op = "update_token"
    /\ last.ret = 1
    /\ mqtt.id_token = 1
    /\ mqtt.task = "running"
    /\ mqtt.pc = "listening"
    /\ mqtt.cred = 2


\* ------------------------------------------------------------ store claims

\* The VINs of the identities the coordinator was constructed with.
StartupVins == { entry.vehicles[i].vin : i \in 1..Len(entry.vehicles) }

\* C29: the store holds exactly the vehicles the coordinator was constructed
\* with, each with the identity it was given; a push for an unknown VIN
\* changes nothing and notifies nobody.
C29_StoreKeysFixed ==
    /\ [](/\ DOMAIN data = StartupVins
          /\ vehicles = entry.vehicles
          /\ \A i \in 1..Len(entry.vehicles) :
               data[entry.vehicles[i].vin].basic = entry.vehicles[i])
    /\ [][(last'.op = "mqtt" /\ MsgVin(last'.msg) \notin DOMAIN data)
          => data' = data /\ last'.exc = "ignored"]_vars
    /\ [][entry'.vehicles = entry.vehicles]_vars

\* A push for a vehicle that is not in the store has just been ignored, after
\* a poll and a push have written telemetry of a known vehicle.
C29_Witness ==
    /\ last.op = "mqtt"
    /\ MsgVin(last.msg) \notin DOMAIN data
    /\ data["V1"].rest_updated # Null
    /\ data["V1"].mqtt_updated # Null
    /\ DOMAIN data = {"V1", "V2"}


\* ------------------------------------------------------ token-order claims

\* The step sends a REST call of poll cycle k.
IssuesCall(k) == cycle'[k].ncalls = cycle[k].ncalls + 1

\* C30: a poll cycle sends no REST call while its token refresh is awaited;
\* the step that sends its first call after a refresh has stored the new
\* token set and given its access token to the REST client; and no call of a
\* cycle carries the access token that was inside the refresh margin when the
\* cycle was entered.
C30_TokenBeforeCalls ==
    /\ [](\A k \in Cycles :
            cycle[k].pc = "refresh_wait"
              => cycle[k].ncalls = 0 /\ cycle[k].stale # 0)
    /\ [][\A k \in Cycles :
            (cycle[k].pc = "refresh_wait" /\ IssuesCall(k))
              => /\ access_token'["coord"] = tokens'.access_token
                 /\ tokens'.token_time = now]_vars
    /\ [][\A k \in Cycles :
            IssuesCall(k)
              => /\ cycle'[k].stale = margin_token(tokens, now)
                                        \/ cycle'[k].stale = cycle[k].stale
                 /\ access_token'["coord"] # 0
                 /\ access_token'["coord"] # cycle'[k].stale]_vars

\* A cycle that was entered with a token inside the margin is waiting for the
\* answer to a telemetry call that carries the token its refresh returned.
C30_Witness ==
    \E k \in Cycles :
        /\ cycle[k].pc = "fetch_wait"
        /\ cycle[k].stale # 0
        /\ access_token["coord"] # cycle[k].stale
        /\ access_token["coord"] = tokens.access_token

\* A step in which cycle k leaves container resolution without a container
\* id: get_containers or create_container failed or gave no id, or the budget
\* refused the call (the token being valid or refreshed).
Unresolved(k) ==
    /\ \/ cycle[k].pc \in {"list_wait", "create_wait"}
       \/ /\ cycle[k].pc \in {"idle", "refresh_wait"}
          /\ container_id = ""
          /\ last'.who = k
          /\ \/ last'.op = "poll" /\ last'.exc = "valid"
             \/ last'.op = "refresh" /\ last'.exc = "ok"
    /\ cycle'[k] # cycle[k]
    /\ cycle'[k].pc \notin {"refresh_wait", "list_wait", "create_wait"}
    /\ container_id' = ""

\* C31: without a container id a poll cycle first lists the containers and
\* reuses the first one that has an id, otherwise it creates one; when listing
\* or creation fails (APIError, exhausted budget, any other error) or gives no
\* id, the cycle returns normally, sends no telemetry fetch and leaves every
\* VehicleState unchanged, and the next cycle lists the containers again.
C31_ContainerFailuresNonFatal ==
    [][\A k \in Cycles :
         /\ (container_id = "" /\ IssuesCall(k)
               /\ cycle[k].pc \in {"idle", "refresh_wait"})
              => cycle'[k].pc = "list_wait"
         /\ (cycle[k].pc = "list_wait" /\ last'.op = "get_containers"
               /\ last'.who = k /\ last'.exc = "ok")
              => \/ container_id' = "c1"
                 \/ container_id' = container_id /\ cycle'[k].pc = "create_wait"
                 \/ /\ container_id' = container_id
                    /\ cycle'[k] = [IdleCycle EXCEPT !.result = "ok"]
                    /\ ~check_rate_limit(call_log'["coord"], now).ok
         /\ (cycle[k].pc = "create_wait" /\ last'.op = "create_container"
               /\ last'.who = k /\ last'.exc = "ok")
              => container_id' \in CreatedIds
         /\ Unresolved(k)
              => /\ cycle'[k] = [IdleCycle EXCEPT !.result = "ok"]
                 /\ data' = data
                 /\ Len(http_log') <= Len(http_log)]_vars

\* The first cycle ended without a container id (none listed, none created)
\* and the second cycle is listing the containers again.
C31_Witness ==
    /\ container_id = ""
    /\ polls = 2
    /\ \E k \in Cycles :
         /\ cycle[k].pc = "list_wait"
         /\ \A j \in Cycles \ {k} : cycle[j].pc = "idle" /\ cycle[j].result = "ok"
    /\ Len(http_log) >= 2

\* The budget refused a call of container resolution: the cycle has returned
\* without a container id and without a call, its ledger full.
C31_BudgetWitness ==
    /\ container_id = ""
    /\ polls >= 1
    /\ last.op = "poll"
    /\ \E k \in Cycles : cycle[k] = [IdleCycle EXCEPT !.result = "ok"] /\ last.who = k
    /\ ~check_rate_limit(CoordLog, now).ok

\* The descriptors of a batch whose item has no value (null or absent).
Dropped(items) == DOMAIN items \ Carried(items)

\* Of a batch merged into old giving new: a descriptor without value keeps the
\* entry it had, or stays absent, and every descriptor with a value is stored.
DropsValueless(old, new, items) ==
    /\ DOMAIN new = DOMAIN old \cup Carried(items)
    /\ \A d \in Dropped(items) : d \in DOMAIN old => new[d] = old[d]
    /\ \A d \in Carried(items) : new[d] = Stored(d, items[d])

\* C32: a telemetry entry without a value, arriving by REST or by stream, is
\* dropped: the entry stored for its descriptor is neither deleted nor
\* overwritten (and none is made if there was none), while the entries of the
\* same response or message that carry a value are merged.
C32_ValuelessDropped ==
    [][/\ (PushStep /\ Accepted(last'.msg)) =>
            LET v == MsgVin(last'.msg)
            IN DropsValueless(data[v].telemetry, data'[v].telemetry,
                              last'.msg.data.items)
       /\ \A k \in Cycles : RestStep(k) =>
            LET v == FetchedVin(k)
            IN \E body \in MergedBodies :
                  DropsValueless(data[v].telemetry, data'[v].telemetry, body)
      ]_vars

\* A push whose d1 has no value and whose d2 has one was merged into a vehicle
\* that had d1 from REST: d1 is the REST entry still, d2 is the stream's.
C32_Witness ==
    /\ last.op = "mqtt"
    /\ Dropped(last.msg.data.items) = {"d1"}
    /\ Accepted(last.msg)
    /\ LET t == data[MsgVin(last.msg)].telemetry
       IN /\ DOMAIN t = {"d1", "d2"}
          /\ t["d1"].timestamp = "ts"
          /\ t["d2"] = Stored("d2", last.msg.data.items["d2"])

\* A REST answer whose d2 has no value was merged into a vehicle that had d2
\* from the stream: d1 is the answer's, d2 is the stream's entry still.
C32_RestWitness ==
    /\ last.op = "get_telematic_data"
    /\ last.exc = "ok"
    /\ \E v \in DOMAIN data :
         /\ data[v].rest_updated = now
         /\ DOMAIN data[v].telemetry = {"d1", "d2"}
         /\ data[v].telemetry["d1"] = Stored("d1", Item(JNum(1), "km"))
         /\ data[v].telemetry["d2"].timestamp = "t0"

\* The task sleeps in its backoff and the stop event is set.
StoppedAsleep == mqtt.task = "running" /\ mqtt.pc = "backoff" /\ mqtt.stop_event

\* C33: when the stop signal is set while the loop sleeps in its backoff, the
\* task is resumed at once (its wake-up does not wait for the delay) and the
\* step that resumes it ends the loop: no time passes, the delay is not
\* doubled and no connection attempt is begun.
C33_StopEndsBackoff ==
    /\ [](StoppedAsleep => mqtt.cancelled)
    /\ [][StoppedAsleep
          => /\ now' = now
             /\ ~Attempt
             /\ ~Reconnects
             /\ \/ mqtt'.task = "done" /\ mqtt'.pc = "none"
                                       /\ mqtt'.backoff = mqtt.backoff
                \/ mqtt'.task = mqtt.task /\ mqtt'.pc = mqtt.pc
                                          /\ mqtt'.backoff = mqtt.backoff
                                          /\ mqtt'.wake = mqtt.wake]_vars

\* The task was ended in a backoff sleep that had not run out, at the time
\* stop() was called, and stop() is about to return.
C33_Witness ==
    /\ last.op = "stream"
    /\ last.exc = "cancelled"
    /\ mqtt.stop_event
    /\ mqtt.stopping # "no"
    /\ mqtt.task = "done"
    /\ mqtt.nfail > 0
    /\ now < mqtt.wake

\* ------------------------------------------------------ device-poll claims

\* The outcome the specification gives to one answer of the token endpoint:
\* the slow_down code under any status, the pending code or status 403, the
\* expiry by status 401 or by code, and AuthError for everything else.
pollOnce(resp) ==
    IF resp.status = 200 THEN "ok"
    ELSE IF resp.error = "slow_down" THEN "SlowDown"
    ELSE IF resp.error = "authorization_pending" \/ resp.status = 403
    THEN "AuthorizationPending"
    ELSE IF resp.status = 401 \/ resp.error = "expired_token" THEN "DeviceCodeExpired"
    ELSE "AuthError"

\* C34 (as the specification states it): one poll maps every answer of the
\* token endpoint to exactly one outcome: the tokens for a 200, the pending
\* signal for authorization_pending or the pending status, the slow-down
\* signal for slow_down whatever the status, DeviceCodeExpired for an expired
\* device code, and AuthError for every other answer.
C34_PollOutcomes ==
    [][(Answered /\ (flow'.resp.status = 200 => flow'.resp.complete))
       => last'.exc = pollOnce(flow'.resp)]_vars

\* C34, the slow_down part alone: a slow_down code is the slow-down signal
\* under every status, and the loop lengthens its interval.
C34_SlowDownAnyStatus ==
    [][(Answered /\ flow'.resp.status # 200 /\ flow'.resp.error = "slow_down")
       => /\ last'.exc = "SlowDown"
          /\ flow'.interval = Min(flow.interval + 2, 10)]_vars

\* C35 (as the specification states it): over the life of one device-poll
\* loop the sleep interval never decreases, whatever interval the provider
\* advertised (values above 10 seconds included) and whatever the answers:
\* after a slow_down it is at least what it was before.
C35_IntervalNeverDecreases ==
    [][flow.pc \in {"loop", "sleeping", "poll_wait"}
       => flow'.interval >= flow.interval]_vars

\* ------------------------------------------------ discovery budget claims

\* The step records the answer to a basicData call and finds the budget of
\* the flow's client spent, with VINs of the list still to ask for.
BudgetOut ==
    /\ flow.pc = "basic_wait"
    /\ flow.idx < Len(flow.vins)
    /\ call_log'["flow"] # call_log["flow"]
    /\ ~check_rate_limit(call_log'["flow"], now).ok

\* C36 (as the specification states it): when the local budget runs out
\* part-way through discover_vehicles, after the VIN list was fetched, the
\* discovery is not aborted: it goes on to return one identity per listed VIN,
\* the placeholder for every VIN whose basic data could not be fetched.
C36_BudgetDoesNotAbort ==
    /\ [][BudgetOut => flow'.pc \in {"basic_wait", "done"}]_vars
    /\ [][(BudgetOut /\ flow'.pc = "done")
          => /\ Len(flow'.found) = Len(flow.vins)
             /\ \A i \in flow.idx + 1 .. Len(flow.vins) :
                  flow'.found[i] = placeholder(flow.vins[i])]_vars

\* C37 (as the specification states it): the device-poll loop sends no token
\* request after its deadline: every poll is issued not later than expires_in
\* seconds after the loop started, whatever the interval and the run of
\* pending and slow_down answers.
C37_NoPollAfterDeadline ==
    [][(flow.pc = "sleeping" /\ flow'.pc = "poll_wait")
       => now' <= flow.deadline]_vars

\* ------------------------------------------------ stream concurrency claims

\* The stream tasks that are alive: the one _task refers to, when it runs, and
\* those no longer referred to.
Alive == (IF mqtt.task = "running" THEN 1 ELSE 0) + mqtt.orphans

\* C38 (as the specification states it): whatever the interleaving of start()
\* and stop() calls of concurrent callers, a start() during a stop() that is
\* awaiting the task included, at most one stream task is alive, every task
\* alive is the one the stream refers to, and when a stop() has returned and
\* no start() has begun since, no task is alive.
C38_OneReferencedTask ==
    /\ Alive <= 1
    /\ mqtt.orphans = 0
    /\ StopReturned => Alive = 0

\* ---------------------------------------------------- stream message claims

\* A message that is not handed on, or whose callback raises: the payload is
\* no UTF-8 or no JSON, the topic has no VIN segment, or the payload is a
\* flat list (line 270 of the callback raises AttributeError).
Malformed(m) == m.shape \in {"undecodable", "list"} \/ m.parts < 2

\* C39: a message that cannot be decoded, has an unexpected topic, or makes
\* the callback raise is dropped alone: no vehicle's state changes, the task
\* still listens on the same connection with its backoff delay as it was, no
\* reconnect is begun, and the message after it is handled like any other.
C39_BadMessageDroppedAlone ==
    /\ [][(last'.op = "mqtt" /\ Malformed(last'.msg))
          => /\ data' = data
             /\ mqtt' = mqtt
             /\ mqtt'.pc = "listening"
             /\ mqtt'.task = "running"
             /\ now' = now]_vars
    /\ [][(last.op = "mqtt" /\ Malformed(last.msg)
             /\ last'.op = "mqtt" /\ ~Malformed(last'.msg))
          => /\ mqtt' = mqtt
             /\ data' = on_mqtt_message(data, last'.msg.topic_vin, last'.msg, now).data
             /\ Accepted(last'.msg) => data'[MsgVin(last'.msg)].mqtt_updated = now]_vars

\* A message that cannot be decoded was dropped on a connection that had
\* been lost once and opened again: the task listens, its delay is the
\* minimum again and no vehicle has been updated.
C39_Witness ==
    /\ last.op = "mqtt"
    /\ last.msg.shape = "undecodable"
    /\ mqtt.pc = "listening"
    /\ mqtt.nfail = 1
    /\ mqtt.backoff = MQTT_RECONNECT_MIN
    /\ \A v \in DOMAIN data : data[v].mqtt_updated = Null

\* A topic without VIN segment was dropped after a message had been merged.
C39_TopicWitness ==
    /\ last.op = "mqtt"
    /\ last.msg.parts < 2
    /\ mqtt.pc = "listening"
    /\ data["V1"].mqtt_updated # Null

====
